---------------------------- MODULE Spec2Model ----------------------------
(***************************************************************************)
(* Model of the record evaluation engine of dns-checker: the DNS-over-HTTPS *)
(* resolver (dns-resolver.ts), the recursive SPF evaluator                  *)
(* (spf-validator.ts) and the DKIM and DMARC validators.                    *)
(*                                                                         *)
(* Text is modelled as a sequence of one-character strings, so that the     *)
(* parsing and validation code acts on the characters it acts on in the     *)
(* source.                                                                  *)
(***************************************************************************)
EXTENDS Integers, Sequences, FiniteSets, TLC

(***************************************************************************)
(* Text helpers: the String.prototype operations the source uses.           *)
(***************************************************************************)
LowerLetters ==
  <<"a","b","c","d","e","f","g","h","i","j","k","l","m",
    "n","o","p","q","r","s","t","u","v","w","x","y","z">>

UpperLetters ==
  <<"A","B","C","D","E","F","G","H","I","J","K","L","M",
    "N","O","P","Q","R","S","T","U","V","W","X","Y","Z">>

DigitChars == <<"0","1","2","3","4","5","6","7","8","9">>

Range(s) == { s[i] : i \in 1..Len(s) }

\* [a-z0-9] under the /i flag
AlnumChars == Range(LowerLetters) \cup Range(UpperLetters) \cup Range(DigitChars)

\* \s of a JavaScript regular expression, and what trim() removes
WhitespaceChars == {" ", "\t", "\n", "\r"}

toLowerChar(c) ==
  IF \E i \in 1..26 : UpperLetters[i] = c
    THEN LowerLetters[CHOOSE i \in 1..26 : UpperLetters[i] = c]
    ELSE c

toLowerCase(s) == [i \in 1..Len(s) |-> toLowerChar(s[i])]

\* s.substring(n): the text from the 0-based offset n on
substring(s, n) == IF n >= Len(s) THEN <<>> ELSE SubSeq(s, n + 1, Len(s))

startsWith(s, p) == Len(s) >= Len(p) /\ SubSeq(s, 1, Len(p)) = p

endsWith(s, p) == Len(s) >= Len(p) /\ SubSeq(s, Len(s) - Len(p) + 1, Len(s)) = p

\* s.includes(p)
includes(s, p) ==
  \E i \in 1..(Len(s) - Len(p) + 1) : SubSeq(s, i, i + Len(p) - 1) = p

hasChar(s, c) == \E i \in 1..Len(s) : s[i] = c

RECURSIVE trimStart(_)
trimStart(s) ==
  IF s # <<>> /\ Head(s) \in WhitespaceChars THEN trimStart(Tail(s)) ELSE s

RECURSIVE trimEnd(_)
trimEnd(s) ==
  IF s # <<>> /\ s[Len(s)] \in WhitespaceChars
    THEN trimEnd(SubSeq(s, 1, Len(s) - 1))
    ELSE s

trim(s) == trimEnd(trimStart(s))

\* s.split(c) for a one-character separator: always at least one piece
RECURSIVE splitChar(_, _)
splitChar(s, c) ==
  IF ~hasChar(s, c) THEN <<s>>
  ELSE LET i == CHOOSE k \in 1..Len(s) :
                  s[k] = c /\ \A j \in 1..(k - 1) : s[j] # c
       IN  <<SubSeq(s, 1, i - 1)>> \o splitChar(SubSeq(s, i + 1, Len(s)), c)

\* s.split(/\s+/): pieces between maximal runs of whitespace
RECURSIVE splitWhitespace(_)
splitWhitespace(s) ==
  IF \A i \in 1..Len(s) : s[i] \notin WhitespaceChars THEN <<s>>
  ELSE LET i == CHOOSE k \in 1..Len(s) :
                  s[k] \in WhitespaceChars
                  /\ \A j \in 1..(k - 1) : s[j] \notin WhitespaceChars
       IN  <<SubSeq(s, 1, i - 1)>>
             \o splitWhitespace(trimStart(SubSeq(s, i, Len(s))))

\* decimal rendering of a natural number, as a template literal renders it
RECURSIVE numberToString(_)
numberToString(n) ==
  IF n < 10 THEN <<DigitChars[n + 1]>>
  ELSE numberToString(n \div 10) \o <<DigitChars[(n % 10) + 1]>>

\* A value that may be null or undefined in the source: None, or Some(v)
None == <<>>
Some(v) == <<v>>

(***************************************************************************)
(* spf-validator.ts: constants                                              *)
(***************************************************************************)
SPF_PREFIX == <<"v","=","s","p","f","1">>
MAX_DNS_LOOKUPS == 10
MAX_RECURSION_DEPTH == 5
MAX_INCLUDES == 10
MAX_MECHANISM_LENGTH == 255
MAX_LABEL_LENGTH == 63
MAX_NAME_LENGTH == 253

(***************************************************************************)
(* isValidDomain (spf-validator.ts)                                         *)
(***************************************************************************)
\* /^[a-z0-9]([a-z0-9-]{0,61}[a-z0-9])?$/i
labelRegex(label) ==
  /\ Len(label) >= 1
  /\ Len(label) <= MAX_LABEL_LENGTH
  /\ label[1] \in AlnumChars
  /\ label[Len(label)] \in AlnumChars
  /\ \A i \in 1..Len(label) : label[i] \in AlnumChars \cup {"-"}

isValidDomain(domain) ==
  /\ domain # <<>>
  /\ \A c \in {"[", "]", " ", "\t", "\n", "\r"} : ~hasChar(domain, c)
  /\ ~startsWith(domain, <<".">>)
  /\ ~endsWith(domain, <<".">>)
  /\ Len(domain) <= MAX_NAME_LENGTH
  /\ hasChar(domain, ".")
  /\ LET labels == splitChar(domain, ".")
     IN  \A i \in 1..Len(labels) :
           /\ Len(labels[i]) > 0
           /\ Len(labels[i]) <= MAX_LABEL_LENGTH
           /\ labelRegex(labels[i])

(***************************************************************************)
(* cleanDomain (spf-validator.ts): None when the cleaned text is no domain  *)
(***************************************************************************)
\* .replace(/^\[|\]$/g, ''): a leading [ and a trailing ] are removed
stripBrackets(s) ==
  LET a == IF startsWith(s, <<"[">>) THEN Tail(s) ELSE s
  IN  IF endsWith(a, <<"]">>) THEN SubSeq(a, 1, Len(a) - 1) ELSE a

\* .replace(/^"|"$/g, '')
stripQuotes(s) ==
  LET a == IF startsWith(s, <<"\"">>) THEN Tail(s) ELSE s
  IN  IF endsWith(a, <<"\"">>) THEN SubSeq(a, 1, Len(a) - 1) ELSE a

cleanDomain(domain) ==
  IF domain = <<>> THEN None
  ELSE LET cleaned == trim(stripQuotes(stripBrackets(trim(domain))))
       IN  IF isValidDomain(cleaned) THEN Some(cleaned) ELSE None

(***************************************************************************)
(* parseSPFRecord (spf-validator.ts).  Of the parsed record the model keeps *)
(* the three fields validateSPF reads: mechanisms.all, mechanisms.include   *)
(* and mechanisms.redirect; the ip4, ip6, a, mx, exists and exp cases of    *)
(* the switch write other fields only.                                      *)
(***************************************************************************)
QualifierChars == {"+", "~", "?", "-"}

\* [a-zA-Z0-9._-]
MechNameChars == AlnumChars \cup {".", "_", "-"}

\* length of the longest prefix of s made of mechanism-name characters
RECURSIVE nameRun(_)
nameRun(s) ==
  IF s # <<>> /\ Head(s) \in MechNameChars THEN 1 + nameRun(Tail(s)) ELSE 0

\* ([a-zA-Z0-9._-]+)(?:[:=](.+))?$ against s
nameAndValueMatch(s) ==
  LET k == nameRun(s)
  IN  /\ k >= 1
      /\ \/ k = Len(s)
         \/ /\ s[k + 1] \in {":", "="}
            /\ Len(s) >= k + 2

nameAndValue(qualifier, s) ==
  LET k == nameRun(s)
  IN  [qualifier |-> qualifier,
       type      |-> SubSeq(s, 1, k),
       value     |-> IF k = Len(s) THEN <<>> ELSE SubSeq(s, k + 2, Len(s))]

\* part.match(/^([+~?-]?)([a-zA-Z0-9._-]+)(?:[:=](.+))?$/): None for no match
mechanismMatch(part) ==
  IF part # <<>> /\ Head(part) \in QualifierChars /\ nameAndValueMatch(Tail(part))
    THEN Some(nameAndValue(<<Head(part)>>, Tail(part)))
  ELSE IF nameAndValueMatch(part)
    THEN Some(nameAndValue(<<>>, part))
  ELSE None

ALL_NAME == <<"a","l","l">>
INCLUDE_NAME == <<"i","n","c","l","u","d","e">>
REDIRECT_NAME == <<"r","e","d","i","r","e","c","t">>

\* the target accepted by the include and redirect cases of the switch
targetAccepted(cleanValue) ==
  /\ cleanValue # <<>>
  /\ LET domainSpec == splitChar(cleanValue, "/")[1]
     IN  /\ isValidDomain(domainSpec)
         /\ Len(domainSpec) <= MAX_MECHANISM_LENGTH

\* the all case without the default of the qualifier
allUndefaulted(qualifier) == qualifier \o ALL_NAME

\* case 'all': (qualifier || '+') + 'all'
allOf(qualifier) ==
  (IF qualifier = <<>> THEN <<"+">> ELSE qualifier) \o ALL_NAME

\* one iteration of the loop over parts
parsePart(mechanisms, part) ==
  LET mechanismMatched == mechanismMatch(part)
  IN  IF mechanismMatched = None THEN mechanisms
      ELSE LET m          == mechanismMatched[1]
               mechName   == toLowerCase(m.type)
               cleanValue == trim(m.value)
           IN  IF mechName = ALL_NAME
                 THEN [mechanisms EXCEPT !.all = Some(allOf(m.qualifier))]
               ELSE IF mechName = INCLUDE_NAME
                 THEN IF targetAccepted(cleanValue)
                        THEN [mechanisms EXCEPT !.include = Append(@, cleanValue)]
                        ELSE mechanisms
               ELSE IF mechName = REDIRECT_NAME
                 THEN IF targetAccepted(cleanValue)
                        THEN [mechanisms EXCEPT !.redirect = Some(cleanValue)]
                        ELSE mechanisms
               ELSE mechanisms

RECURSIVE parseParts(_, _)
parseParts(mechanisms, parts) ==
  IF parts = <<>> THEN mechanisms
  ELSE parseParts(parsePart(mechanisms, Head(parts)), Tail(parts))

isNotBlank(part) == trim(part) # <<>>

parseSPFRecord(record) ==
  IF record = <<>> \/ ~startsWith(trim(record), SPF_PREFIX) THEN None
  ELSE LET parts == SelectSeq(
                      splitWhitespace(trim(substring(record, Len(SPF_PREFIX)))),
                      isNotBlank)
       IN  Some([raw        |-> record,
                 mechanisms |-> parseParts(
                                  [all |-> None, include |-> <<>>, redirect |-> None],
                                  parts)])

(***************************************************************************)
(* dns-resolver.ts.  The text literals of the messages it builds.           *)
(***************************************************************************)
URL_BASE ==
  <<"h","t","t","p","s",":","/","/","c","l","o","u","d","f","l","a","r","e",
    "-","d","n","s",".","c","o","m","/","d","n","s","-","q","u","e","r","y",
    "?","n","a","m","e","=">>

TXT_INVALID_HOSTNAME ==
  <<"I","n","v","a","l","i","d"," ","h","o","s","t","n","a","m","e",":"," ">>

TIMED_OUT_AFTER ==
  <<"D","N","S"," ","q","u","e","r","y"," ","t","i","m","e","d"," ","o","u",
    "t"," ","a","f","t","e","r"," ">>

TIMED_OUT ==
  <<"t","i","m","e","d"," ","o","u","t">>

DNS_QUERY_SPACE ==
  <<"D","N","S"," ","q","u","e","r","y"," ">>

FAILED_WITH_STATUS ==
  <<"D","N","S"," ","q","u","e","r","y"," ","f","a","i","l","e","d"," ","w",
    "i","t","h"," ","s","t","a","t","u","s"," ">>

NO_ERROR_DETAILS ==
  <<"N","o"," ","e","r","r","o","r"," ","d","e","t","a","i","l","s">>

PARSE_FAILED_PREFIX ==
  <<"F","a","i","l","e","d"," ","t","o"," ","p","a","r","s","e"," ","D","N",
    "S"," ","r","e","s","p","o","n","s","e",":"," ">>

INVALID_FORMAT ==
  <<"I","n","v","a","l","i","d"," ","D","N","S"," ","r","e","s","p","o","n",
    "s","e"," ","f","o","r","m","a","t">>

UNKNOWN_ERROR ==
  <<"U","n","k","n","o","w","n"," ","e","r","r","o","r">>

UNKNOWN_RESOLUTION_ERROR ==
  <<"U","n","k","n","o","w","n"," ","e","r","r","o","r"," ","d","u","r","i",
    "n","g"," ","D","N","S"," ","r","e","s","o","l","u","t","i","o","n">>

URL_TOO_LONG ==
  <<"D","N","S"," ","q","u","e","r","y"," ","U","R","L"," ","t","o","o"," ",
    "l","o","n","g"," ","(">>

CHARACTERS_SUFFIX ==
  <<" ","c","h","a","r","a","c","t","e","r","s",")">>

UNDEFINED_TEXT ==
  <<"u","n","d","e","f","i","n","e","d">>

TXT_FAILED_PREFIX ==
  <<"F","a","i","l","e","d"," ","t","o"," ","r","e","s","o","l","v","e"," ",
    "T","X","T"," ","r","e","c","o","r","d","s"," ","f","o","r"," ">>

TYPE_TXT ==
  <<"&","t","y","p","e","=","T","X","T">>

COLON_SPACE == <<":", " ">>

MS_SUFFIX == <<"m", "s">>

MAX_DOMAIN_LENGTH == 253
MAX_URL_LENGTH == 2048
MAX_TXT_PART_LENGTH == 255
QUERY_TIMEOUT_MS == 5000

\* An Error object: its name and its message
Error(message) == [name |-> "Error", message |-> message]

Return(value) == [threw |-> FALSE, value |-> value]
Throw(error) == [threw |-> TRUE, error |-> error]

(***************************************************************************)
(* The transport's behaviour on one query, as fetch and the Response show   *)
(* it to the resolver:                                                      *)
(*   fetch   "response": fetch resolves with a Response                     *)
(*           "abort": the AbortController aborted the request (the timer    *)
(*                    of fetchWithTimeout fired first)                      *)
(*           "reject": fetch rejects with thrown (an Error, or any value)   *)
(*   ok, status, text  the Response's ok, status and text() (None: text()   *)
(*                     rejects)                                             *)
(*   json    "object": json() gives an object with Status and Answer        *)
(*           "nonobject": json() gives null or a primitive                  *)
(*           "reject": json() rejects with jsonError                        *)
(***************************************************************************)
\* the characters encodeURIComponent leaves as they are (ASCII input)
UnreservedChars == AlnumChars \cup {"-", "_", ".", "!", "~", "*", "'", "(", ")"}

RECURSIVE encodeURIComponent(_)
encodeURIComponent(s) ==
  IF s = <<>> THEN <<>>
  ELSE (IF Head(s) \in UnreservedChars THEN <<Head(s)>> ELSE <<"%", "X", "X">>)
         \o encodeURIComponent(Tail(s))

\* s.split(sep) for a separator of several characters
RECURSIVE splitText(_, _)
splitText(s, sep) ==
  IF ~includes(s, sep) THEN <<s>>
  ELSE LET i == CHOOSE k \in 1..(Len(s) - Len(sep) + 1) :
                  /\ SubSeq(s, k, k + Len(sep) - 1) = sep
                  /\ \A j \in 1..(k - 1) : SubSeq(s, j, j + Len(sep) - 1) # sep
       IN  <<SubSeq(s, 1, i - 1)>>
             \o splitText(SubSeq(s, i + Len(sep), Len(s)), sep)

\* fetchWithTimeout: the Response, or the error it throws
fetchWithTimeout(transport, timeout) ==
  IF transport.fetch = "response" THEN Return(transport)
  ELSE IF transport.fetch = "abort"
    THEN Throw(Error(TIMED_OUT_AFTER \o numberToString(timeout) \o MS_SUFFIX))
  ELSE Throw(transport.thrown)

\* error instanceof Error ? error.message : fallback
messageOr(error, fallback) ==
  IF error.name # "NotAnError" THEN error.message ELSE fallback

\* the body of resolveTxt's try block, up to the parsed DnsResponse
\* statusMessage, parseMessage and formatMessage are the messages of the
\* errors thrown for an HTTP error, for a body json() rejects and for a body
\* that is no object
queryDnsJson(transport, statusMessage, parseMessage, formatMessage) ==
  LET fetched == fetchWithTimeout(transport, QUERY_TIMEOUT_MS)
  IN  IF fetched.threw THEN fetched
      ELSE IF ~transport.ok THEN Throw(Error(statusMessage))
      ELSE IF transport.json = "reject" THEN Throw(Error(parseMessage))
      ELSE IF transport.json = "nonobject" THEN Throw(Error(formatMessage))
      ELSE Return(transport)

\* await response.text().catch(() => 'No error details')
errorTextOf(transport) ==
  IF transport.text = None THEN NO_ERROR_DETAILS ELSE transport.text[1]

\* error instanceof Error ? error.message : 'Unknown error', for the error
\* of response.json()
jsonErrorMessage(transport) == messageOr(transport.jsonError, UNKNOWN_ERROR)

\* data.Status rendered by a template literal
statusText(Status) ==
  IF Status = None THEN UNDEFINED_TEXT ELSE numberToString(Status[1])

isNotEmpty(s) == s # <<>>

\* one Answer entry of a TXT response: its segments
txtAnswerParts(a) ==
  IF a.data = None \/ a.data[1] = <<>> THEN <<>>
  ELSE LET unquoted == stripQuotes(a.data[1])
           parts    == splitText(unquoted, <<"\"", " ", "\"">>)
           capped   == [i \in 1..Len(parts) |->
                          IF Len(trim(parts[i])) <= MAX_TXT_PART_LENGTH
                            THEN trim(parts[i]) ELSE <<>>]
       IN  SelectSeq(capped, isNotEmpty)

txtStatusMessage(status, errorText) ==
  FAILED_WITH_STATUS \o numberToString(status) \o COLON_SPACE \o errorText

txtParseMessage(errorMessage) == PARSE_FAILED_PREFIX \o errorMessage

\* the catch block of resolveTxt: every failure is rethrown as an Error
txtRethrow(hostname, error) ==
  Throw(Error(TXT_FAILED_PREFIX \o hostname \o COLON_SPACE
                \o (IF error.name = "NotAnError"
                      THEN (IF error.isString THEN error.message
                                              ELSE UNKNOWN_RESOLUTION_ERROR)
                      ELSE error.message)))

resolveTxt(hostname, transport) ==
  IF hostname = <<>> \/ Len(hostname) > MAX_DOMAIN_LENGTH
    THEN Throw(Error(TXT_INVALID_HOSTNAME \o hostname))
  ELSE LET url == URL_BASE \o encodeURIComponent(hostname) \o TYPE_TXT
       IN  IF Len(url) > MAX_URL_LENGTH
             THEN txtRethrow(hostname,
                    Error(URL_TOO_LONG \o numberToString(Len(url))
                            \o CHARACTERS_SUFFIX))
           ELSE LET data == queryDnsJson(
                              transport,
                              txtStatusMessage(transport.status,
                                               errorTextOf(transport)),
                              txtParseMessage(jsonErrorMessage(transport)),
                              txtParseMessage(INVALID_FORMAT))
                IN  IF data.threw THEN txtRethrow(hostname, data.error)
                    ELSE IF transport.Status # Some(0)
                      THEN txtRethrow(hostname,
                             Error(FAILED_WITH_STATUS \o statusText(transport.Status)))
                    ELSE IF transport.Answer = None THEN Return(<<>>)
                    ELSE Return(SelectSeq(
                           [i \in 1..Len(transport.Answer[1]) |->
                              txtAnswerParts(transport.Answer[1][i])],
                           isNotEmpty))

TYPE_PARAM ==
  <<"&","t","y","p","e","=">>

INVALID_HOSTNAME_FOR ==
  <<"I","n","v","a","l","i","d"," ","h","o","s","t","n","a","m","e"," ","f",
    "o","r"," ">>

QUERY_COLON ==
  <<" ","q","u","e","r","y",":"," ">>

DNS_SPACE ==
  <<"D","N","S"," ">>

QUERY_URL_TOO_LONG_FOR ==
  <<" ","q","u","e","r","y"," ","U","R","L"," ","t","o","o"," ","l","o","n",
    "g"," ","f","o","r"," ">>

SPACE_PAREN ==
  <<" ","(">>

QUERY_FAILED_FOR ==
  <<" ","q","u","e","r","y"," ","f","a","i","l","e","d"," ","f","o","r"," ">>

WITH_STATUS ==
  <<" ","w","i","t","h"," ","s","t","a","t","u","s"," ">>

INVALID_FORMAT_FOR ==
  <<"I","n","v","a","l","i","d"," ","D","N","S"," ","r","e","s","p","o","n",
    "s","e"," ","f","o","r","m","a","t"," ","f","o","r"," ">>

QUERY_WORD ==
  <<" ","q","u","e","r","y">>

FAILED_TO_PARSE_DNS ==
  <<"F","a","i","l","e","d"," ","t","o"," ","p","a","r","s","e"," ","D","N",
    "S"," ">>

RESPONSE_FOR ==
  <<" ","r","e","s","p","o","n","s","e"," ","f","o","r"," ">>

QUERY_FOR ==
  <<" ","q","u","e","r","y"," ","f","o","r"," ">>

NXDOMAIN_SUFFIX ==
  <<" ","r","e","s","u","l","t","e","d"," ","i","n"," ","N","X","D","O","M",
    "A","I","N"," ","(","s","t","a","t","u","s"," ","3",")">>

MS_STATUS ==
  <<"m","s",")",":"," ","S","t","a","t","u","s"," ">>

COMMENT_LABEL ==
  <<","," ","C","o","m","m","e","n","t",":"," ">>

NOT_AVAILABLE ==
  <<"N","/","A">>

FAILED_TO_RESOLVE ==
  <<"F","a","i","l","e","d"," ","t","o"," ","r","e","s","o","l","v","e"," ">>

RECORDS_FOR ==
  <<" ","r","e","c","o","r","d","s"," ","f","o","r"," ">>

TYPE_A ==
  <<"A">>

TYPE_AAAA ==
  <<"A","A","A","A">>

TYPE_MX ==
  <<"M","X">>

TYPE_CNAME ==
  <<"C","N","A","M","E">>

\* the DNS record type numbers resolveA and resolveAAAA filter on
RR_TYPE_A == 1
RR_TYPE_AAAA == 28

\* hostname.length > 0 and at most MAX_DOMAIN_LENGTH characters
isInvalidHostname(hostname) ==
  hostname = <<>> \/ Len(hostname) > MAX_DOMAIN_LENGTH

\* the query URL of a record type
queryUrl(hostname, rrType) ==
  URL_BASE \o encodeURIComponent(hostname) \o TYPE_PARAM \o rrType

\* whether the try block fails before the DNS status is looked at: fetch
\* threw, the status is no success, or the body is no JSON object
responseFails(transport) ==
  \/ fetchWithTimeout(transport, QUERY_TIMEOUT_MS).threw
  \/ ~transport.ok
  \/ transport.json # "object"

\* s.replace(/\.$/, '')
stripTrailingDot(s) ==
  IF endsWith(s, <<".">>) THEN SubSeq(s, 1, Len(s) - 1) ELSE s

digitValue(c) == CHOOSE d \in 0..9 : DigitChars[d + 1] = c

RECURSIVE digitsValue(_, _)
digitsValue(s, acc) ==
  IF s # <<>> /\ Head(s) \in Range(DigitChars)
    THEN digitsValue(Tail(s), acc * 10 + digitValue(Head(s)))
    ELSE acc

\* the digits parseInt reads, after whitespace and a sign
unsignedPart(t) == IF t # <<>> /\ t[1] \in {"+", "-"} THEN Tail(t) ELSE t

\* parseInt(s, 10): None for NaN
parseInt(s) ==
  IF unsignedPart(trimStart(s)) = <<>>
     \/ unsignedPart(trimStart(s))[1] \notin Range(DigitChars)
    THEN None
    ELSE Some((IF trimStart(s)[1] = "-" THEN -1 ELSE 1)
                * digitsValue(unsignedPart(trimStart(s)), 0))

\* parts.join(' ')
RECURSIVE joinSpace(_)
joinSpace(parts) ==
  IF parts = <<>> THEN <<>>
  ELSE IF Len(parts) = 1 THEN parts[1]
  ELSE parts[1] \o <<" ">> \o joinSpace(Tail(parts))

\* the callback of the map over the MX answers: None for null
mxEntryOf(priority, exchange) ==
  IF priority = None \/ exchange = <<>> THEN None
  ELSE Some([priority |-> priority[1], exchange |-> exchange])

mxEntry(data) ==
  mxEntryOf(parseInt(splitChar(data, " ")[1]),
            stripTrailingDot(toLowerCase(joinSpace(Tail(splitChar(data, " "))))))

\* answers.sort((a, b) => a.priority - b.priority): a stable sort
RECURSIVE insertByPriority(_, _)
insertByPriority(sorted, e) ==
  IF sorted = <<>> THEN <<e>>
  ELSE IF sorted[Len(sorted)].priority <= e.priority THEN Append(sorted, e)
  ELSE Append(insertByPriority(SubSeq(sorted, 1, Len(sorted) - 1), e),
              sorted[Len(sorted)])

RECURSIVE sortByPriority(_, _)
sortByPriority(entries, sorted) ==
  IF entries = <<>> THEN sorted
  ELSE sortByPriority(Tail(entries), insertByPriority(sorted, Head(entries)[1]))

isNotNull(v) == v # None

\* the answers of resolveMx for Status 0; a missing Answer or a missing
\* data throws a TypeError inside the try block, which the catch turns into []
mxAnswers(transport) ==
  IF transport.Answer = None THEN Return(<<>>)
  ELSE IF \E i \in 1..Len(transport.Answer[1]) : transport.Answer[1][i].data = None
    THEN Return(<<>>)
  ELSE Return(sortByPriority(
         SelectSeq([i \in 1..Len(transport.Answer[1]) |->
                      mxEntry(transport.Answer[1][i].data[1])],
                   isNotNull),
         <<>>))

\* resolveMx whose catch block rethrows
resolveMxRethrowing(hostname, transport) ==
  IF isInvalidHostname(hostname) THEN Return(<<>>)
  ELSE IF Len(queryUrl(hostname, TYPE_MX)) > MAX_URL_LENGTH THEN Return(<<>>)
  ELSE IF fetchWithTimeout(transport, QUERY_TIMEOUT_MS).threw
    THEN fetchWithTimeout(transport, QUERY_TIMEOUT_MS)
  ELSE IF responseFails(transport) THEN Return(<<>>)
  ELSE IF transport.Status # Some(0) THEN Return(<<>>)
  ELSE mxAnswers(transport)

resolveMx(hostname, transport) ==
  IF isInvalidHostname(hostname) THEN Return(<<>>)
  ELSE IF Len(queryUrl(hostname, TYPE_MX)) > MAX_URL_LENGTH THEN Return(<<>>)
  ELSE IF responseFails(transport) THEN Return(<<>>)
  ELSE IF transport.Status # Some(0) THEN Return(<<>>)
  ELSE mxAnswers(transport)

\* the answers of resolveCname for Status 0
cnameAnswers(transport) ==
  IF transport.Answer = None THEN Return(<<>>)
  ELSE IF \E i \in 1..Len(transport.Answer[1]) : transport.Answer[1][i].data = None
    THEN Return(<<>>)
  ELSE Return([i \in 1..Len(transport.Answer[1]) |->
                 stripTrailingDot(toLowerCase(transport.Answer[1][i].data[1]))])

resolveCname(hostname, transport) ==
  IF isInvalidHostname(hostname) THEN Return(<<>>)
  ELSE IF Len(queryUrl(hostname, TYPE_CNAME)) > MAX_URL_LENGTH THEN Return(<<>>)
  ELSE IF responseFails(transport) THEN Return(<<>>)
  ELSE IF transport.Status # Some(0) THEN Return(<<>>)
  ELSE cnameAnswers(transport)

\* the message the catch block of resolveA and resolveAAAA starts from
caughtMessage(rrType, hostname, error) ==
  IF error.name # "NotAnError" THEN error.message
  ELSE IF error.isString THEN error.message
  ELSE FAILED_TO_RESOLVE \o rrType \o RECORDS_FOR \o hostname

\* "Construct specific timeout message", and the rethrow
rethrowMessage(rrType, hostname, errorMessage) ==
  IF includes(errorMessage, TIMED_OUT)
    THEN Throw(Error(DNS_SPACE \o rrType \o QUERY_FOR \o hostname \o <<" ">>
                       \o substring(errorMessage, Len(DNS_QUERY_SPACE))))
    ELSE Throw(Error(errorMessage))

addressRethrow(rrType, hostname, error) ==
  rethrowMessage(rrType, hostname, caughtMessage(rrType, hostname, error))

\* the error thrown for a DNS status other than 0
addressStatusError(rrType, hostname, transport, duration) ==
  IF transport.Status = Some(3)
    THEN Error(DNS_SPACE \o rrType \o QUERY_FOR \o hostname \o NXDOMAIN_SUFFIX)
    ELSE Error(DNS_SPACE \o rrType \o QUERY_FAILED_FOR \o hostname \o SPACE_PAREN
                 \o numberToString(duration) \o MS_STATUS
                 \o statusText(transport.Status) \o COMMENT_LABEL
                 \o (IF transport.Comment = None \/ transport.Comment = Some(<<>>)
                       THEN NOT_AVAILABLE ELSE transport.Comment[1]))

isOfType(typeNumber, a) == a.type = typeNumber

\* data.Answer?.filter(a => a.type === n).map(a => a.data) || []
addressAnswers(typeNumber, transport) ==
  IF transport.Answer = None THEN <<>>
  ELSE [i \in 1..Len(SelectSeq(transport.Answer[1],
                               LAMBDA a : isOfType(typeNumber, a))) |->
          SelectSeq(transport.Answer[1],
                    LAMBDA a : isOfType(typeNumber, a))[i].data]

\* the try block of resolveA and resolveAAAA once the response was read
addressSettled(rrType, typeNumber, hostname, transport, duration, data) ==
  IF data.threw THEN addressRethrow(rrType, hostname, data.error)
  ELSE IF transport.Status # Some(0)
    THEN addressRethrow(rrType, hostname,
                        addressStatusError(rrType, hostname, transport, duration))
  ELSE Return(addressAnswers(typeNumber, transport))

\* the message of the error thrown when the body cannot be parsed
addressParseMessage(rrType, hostname, errorMessage) ==
  FAILED_TO_PARSE_DNS \o rrType \o RESPONSE_FOR \o hostname \o COLON_SPACE
    \o errorMessage

\* resolveA and resolveAAAA: the same code for the two record types
resolveAddress(rrType, typeNumber, hostname, transport, duration) ==
  IF isInvalidHostname(hostname)
    THEN Throw(Error(INVALID_HOSTNAME_FOR \o rrType \o QUERY_COLON \o hostname))
  ELSE IF Len(queryUrl(hostname, rrType)) > MAX_URL_LENGTH
    THEN addressRethrow(rrType, hostname,
           Error(DNS_SPACE \o rrType \o QUERY_URL_TOO_LONG_FOR \o hostname
                   \o SPACE_PAREN \o numberToString(Len(queryUrl(hostname, rrType)))
                   \o CHARACTERS_SUFFIX))
  ELSE addressSettled(
         rrType, typeNumber, hostname, transport, duration,
         queryDnsJson(
           transport,
           DNS_SPACE \o rrType \o QUERY_FAILED_FOR \o hostname \o WITH_STATUS
             \o numberToString(transport.status) \o COLON_SPACE
             \o errorTextOf(transport),
           addressParseMessage(rrType, hostname, jsonErrorMessage(transport)),
           addressParseMessage(rrType, hostname,
                               INVALID_FORMAT_FOR \o rrType \o QUERY_WORD)))

resolveA(hostname, transport, duration) ==
  resolveAddress(TYPE_A, RR_TYPE_A, hostname, transport, duration)

resolveAAAA(hostname, transport, duration) ==
  resolveAddress(TYPE_AAAA, RR_TYPE_AAAA, hostname, transport, duration)

(***************************************************************************)
(* validateSPF (spf-validator.ts).                                          *)
(*                                                                         *)
(* parentDomains is a JavaScript Set: the model keeps it as the sequence of *)
(* its members in insertion order, which is the order Array.from gives.     *)
(* dns maps a hostname to the transport's behaviour on the TXT query for    *)
(* it.  A call yields the result it resolves with and the hostnames it      *)
(* passed to resolveTxt, in order.                                          *)
(***************************************************************************)
SPF_TIMEOUT_MS == 15000

setHas(set, v) == \E i \in 1..Len(set) : set[i] = v

setAdd(set, v) == IF setHas(set, v) THEN set ELSE Append(set, v)

\* the result object every failing return statement builds
failure(message) ==
  [isValid        |-> FALSE,
   record         |-> None,
   errors         |-> <<message>>,
   warnings       |-> <<>>,
   dnsLookupCount |-> 0,
   includes       |-> <<>>,
   redirects      |-> <<>>,
   allMechanisms  |-> <<>>]

\* const result = { isValid: true, ... }
emptyResult ==
  [isValid        |-> TRUE,
   record         |-> None,
   errors         |-> <<>>,
   warnings       |-> <<>>,
   dnsLookupCount |-> 0,
   includes       |-> <<>>,
   redirects      |-> <<>>,
   allMechanisms  |-> <<>>]

\* result.errors.push(message) alone
errorsPush(result, message) == [result EXCEPT !.errors = Append(@, message)]

\* result.errors.push(message); result.isValid = false
addError(result, message) ==
  [result EXCEPT !.errors = Append(@, message), !.isValid = FALSE]

MsgTooManyIncludes ==
  [text |-> "Maximum number of includes/redirects (${MAX_INCLUDES}) exceeded"]

MsgInvalidDomain(domain) ==
  [text |-> "Invalid domain format: ${domain}", domain |-> domain]

MsgMaxDepth ==
  [text |-> "Maximum recursion depth (${MAX_RECURSION_DEPTH}) exceeded"]

\* the circular-reference message without the domain that closes the cycle
MsgCircularOpen(parentDomains, domain) ==
  [text  |-> "Circular reference detected in SPF records: ${chain}",
   chain |-> parentDomains]

\* Array.from(parentDomains).join(' -> ') -> domain
MsgCircular(parentDomains, domain) ==
  [text  |-> "Circular reference detected in SPF records: ${chain}",
   chain |-> Append(parentDomains, domain)]

MsgNoRecord == [text |-> "No SPF record found"]

MsgMultiple ==
  [text |-> "Multiple SPF records found. Only one SPF record is allowed per domain"]

MsgInvalidFormat == [text |-> "Invalid SPF record format"]

MsgTooManyLookups == [text |-> "Exceeded maximum of ${MAX_DNS_LOOKUPS} DNS lookups"]

MsgIncludesReached ==
  [text |-> "Maximum number of includes/redirects (${MAX_INCLUDES}) reached"]

MsgIncludeFailed(include) ==
  [text |-> "Include for ${include} failed validation", domain |-> include]

MsgRedirectFailed(redirectDomain) ==
  [text   |-> "Redirect to ${redirectDomain} failed validation (target record invalid or led to error)",
   domain |-> redirectDomain]

MsgRedirectWarning(redirectDomain, w) ==
  [text |-> "Redirect (${redirectDomain}): ${w}", domain |-> redirectDomain,
   warning |-> w]

MsgThrown(error) ==
  IF error.name # "NotAnError"
    THEN [text |-> "${error.message}", message |-> error.message]
    ELSE [text |-> "Unknown error during SPF validation"]

MsgSpfTimeout(domain) ==
  [text |-> "SPF validation timed out for ${domain} after 15 seconds",
   domain |-> domain]

\* earlyReturn without the check of the recursion depth
earlyReturnUncheckedDepth(domain, depth, parentDomains, includeCount) ==
  IF includeCount > MAX_INCLUDES THEN Some(failure(MsgTooManyIncludes))
  ELSE IF cleanDomain(domain) = None THEN Some(failure(MsgInvalidDomain(domain)))
  ELSE IF setHas(parentDomains, cleanDomain(domain)[1])
    THEN Some(failure(MsgCircular(parentDomains, cleanDomain(domain)[1])))
  ELSE None

\* the returns before the try block: Some(result), or None to go on
earlyReturn(domain, depth, parentDomains, includeCount) ==
  IF includeCount > MAX_INCLUDES THEN Some(failure(MsgTooManyIncludes))
  ELSE IF cleanDomain(domain) = None THEN Some(failure(MsgInvalidDomain(domain)))
  ELSE IF depth > MAX_RECURSION_DEPTH THEN Some(failure(MsgMaxDepth))
  ELSE IF setHas(parentDomains, cleanDomain(domain)[1])
    THEN Some(failure(MsgCircular(parentDomains, cleanDomain(domain)[1])))
  ELSE None

isSpfText(record) == startsWith(trim(record), SPF_PREFIX)

\* txtRecords.flat()
RECURSIVE flat(_)
flat(arrays) == IF arrays = <<>> THEN <<>> ELSE Head(arrays) \o flat(Tail(arrays))

\* the guard of the redirect step
redirectFollowed(result, parsedRecord) ==
  result.isValid /\ parsedRecord.mechanisms.redirect # None

\* step 5: the effective 'all' of a node without an effective redirect
ownAllMechanisms(parsedRecord) ==
  IF parsedRecord.mechanisms.all # None
    THEN <<parsedRecord.mechanisms.all[1]>>
    ELSE <<>>

\* the count handed to a child call
childIncludeCount(includeCount) == includeCount + 1

\* the result of a node after its redirect target was evaluated
afterRedirect(result, redirectDomain, redirectResult) ==
  LET recorded ==
        [result EXCEPT
           !.redirects = Append(@, [domain |-> redirectDomain,
                                    result |-> redirectResult]),
           !.dnsLookupCount = @ + redirectResult.dnsLookupCount]
  IN  IF ~redirectResult.isValid
        THEN addError(recorded, MsgRedirectFailed(redirectDomain))
        ELSE [recorded EXCEPT
                !.allMechanisms = redirectResult.allMechanisms,
                !.warnings = @ \o [i \in 1..Len(redirectResult.warnings) |->
                                     MsgRedirectWarning(redirectDomain,
                                                        redirectResult.warnings[i])]]

\* the include step without its test of includeResult.isValid
afterIncludeRecorded(result, include, includeResult) ==
  [result EXCEPT
     !.includes = Append(@, [domain |-> include, result |-> includeResult]),
     !.dnsLookupCount = @ + includeResult.dnsLookupCount]

\* the result of a node after one include target was evaluated
afterInclude(result, include, includeResult) ==
  LET recorded ==
        [result EXCEPT
           !.includes = Append(@, [domain |-> include, result |-> includeResult]),
           !.dnsLookupCount = @ + includeResult.dnsLookupCount]
  IN  IF ~includeResult.isValid
        THEN addError(recorded, MsgIncludeFailed(include))
        ELSE recorded

\* step 5 without the test of hasEffectiveRedirect
step5OwnAll(result, hasEffectiveRedirect, parsedRecord) ==
  [result EXCEPT !.allMechanisms = ownAllMechanisms(parsedRecord)]

\* step 5: allMechanisms is only the effective 'all'
step5(result, hasEffectiveRedirect, parsedRecord) ==
  IF ~hasEffectiveRedirect
    THEN [result EXCEPT !.allMechanisms = ownAllMechanisms(parsedRecord)]
    ELSE result

RECURSIVE validateSPF(_, _, _, _, _)
RECURSIVE processIncludes(_, _, _, _, _, _, _)

\* the body of the include loop once the child call has settled
includeSettled(acc, include, child) ==
  [result  |-> afterInclude(acc.result, include, child.result),
   queries |-> acc.queries \o child.queries]

\* the set every call of this node's loop would be handed if the calls
\* before it had added their domains to the set they were given
RECURSIVE aliasedDomains(_, _)
aliasedDomains(currentDomains, visited) ==
  IF visited = <<>> THEN currentDomains
  ELSE aliasedDomains(setAdd(currentDomains, Head(visited)), Tail(visited))

\* currentDomains as the node passes it to a child after the calls that
\* queried visited: each of them built its own set with new Set(parentDomains),
\* so the node's set is as the node made it
passedDomains(currentDomains, visited) == currentDomains

\* "Process includes": the for loop over parsedRecord.mechanisms.include,
\* from its i-th target
processIncludes(includeList, i, acc, depth, currentDomains, includeCount, dns) ==
  IF i > Len(includeList) THEN acc
  ELSE IF includeCount >= MAX_INCLUDES
    THEN [acc EXCEPT !.result = addError(@, MsgIncludesReached)]
  ELSE processIncludes(
         includeList, i + 1,
         includeSettled(acc, includeList[i],
                        validateSPF(includeList[i], depth + 1,
                                    passedDomains(currentDomains, acc.queries),
                                    childIncludeCount(includeCount), dns)),
         depth, currentDomains, includeCount, dns)

\* the redirect step once the call for the target has settled
redirectSettled(included, redirectDomain, target) ==
  [result  |-> afterRedirect(included.result, redirectDomain, target.result),
   queries |-> included.queries \o target.queries,
   hasEffectiveRedirect |-> target.result.isValid]

\* "Process redirect"
processRedirect(included, parsedRecord, depth, currentDomains, includeCount, dns) ==
  IF ~redirectFollowed(included.result, parsedRecord)
    THEN [result |-> included.result, queries |-> included.queries,
          hasEffectiveRedirect |-> FALSE]
  ELSE IF includeCount >= MAX_INCLUDES
    THEN [result |-> addError(included.result, MsgIncludesReached),
          queries |-> included.queries, hasEffectiveRedirect |-> FALSE]
  ELSE redirectSettled(included, parsedRecord.mechanisms.redirect[1],
                       validateSPF(parsedRecord.mechanisms.redirect[1], depth + 1,
                                   passedDomains(currentDomains, included.queries),
                                   childIncludeCount(includeCount), dns))

\* "5. Set the 'allMechanisms'" and the return of the result
setAllMechanisms(redirected, parsedRecord) ==
  [result  |-> step5(redirected.result, redirected.hasEffectiveRedirect,
                     parsedRecord),
   queries |-> redirected.queries]

\* "4. Check DNS lookup count"
checkLookupCount(result) ==
  IF result.dnsLookupCount > MAX_DNS_LOOKUPS
    THEN addError(result, MsgTooManyLookups) ELSE result

\* steps 4 and 5 and the two recursion steps, for a record that parsed
evaluateParsed(result, parsedRecord, domain, depth, currentDomains, includeCount, dns) ==
  setAllMechanisms(
    processRedirect(
      processIncludes(parsedRecord.mechanisms.include, 1,
                      [result |-> checkLookupCount(result), queries |-> <<domain>>],
                      depth, currentDomains, includeCount, dns),
      parsedRecord, depth, currentDomains, includeCount, dns),
    parsedRecord)

\* step 3 for a result that is evaluated only while it is valid
checkParsedWhileValid(result, parsed, domain, depth, currentDomains, includeCount, dns) ==
  IF parsed = None
    THEN [result |-> addError(result, MsgInvalidFormat), queries |-> <<domain>>]
  ELSE IF ~result.isValid THEN [result |-> result, queries |-> <<domain>>]
  ELSE evaluateParsed(result, parsed[1], domain, depth, currentDomains,
                      includeCount, dns)

\* "3. Parse SPF record"
checkParsed(result, parsed, domain, depth, currentDomains, includeCount, dns) ==
  IF parsed = None
    THEN [result |-> addError(result, MsgInvalidFormat), queries |-> <<domain>>]
    ELSE evaluateParsed(result, parsed[1], domain, depth, currentDomains,
                        includeCount, dns)

\* step 2 without result.dnsLookupCount++
checkMultipleUncounted(spfRecords) ==
  [(IF Len(spfRecords) > 1 THEN addError(emptyResult, MsgMultiple)
                           ELSE emptyResult)
     EXCEPT !.record = Some(spfRecords[1])]

\* "2. Check for multiple SPF records", and result.record, dnsLookupCount++
checkMultiple(spfRecords) ==
  [(IF Len(spfRecords) > 1 THEN addError(emptyResult, MsgMultiple)
                           ELSE emptyResult)
     EXCEPT !.record = Some(spfRecords[1]), !.dnsLookupCount = @ + 1]

\* "1. Check SPF Record Existence", after the filter for SPF records
checkExistence(spfRecords, domain, depth, currentDomains, includeCount, dns) ==
  IF spfRecords = <<>>
    THEN [result |-> addError(emptyResult, MsgNoRecord), queries |-> <<domain>>]
    ELSE checkParsed(checkMultiple(spfRecords), parseSPFRecord(spfRecords[1]),
                     domain, depth, currentDomains, includeCount, dns)

\* txtSettled with a catch block that drops the error
txtSettledSwallowed(txtRecords, domain, depth, currentDomains, includeCount, dns) ==
  IF txtRecords.threw
    THEN [result |-> emptyResult, queries |-> <<domain>>]
    ELSE checkExistence(SelectSeq(flat(txtRecords.value), isSpfText),
                        domain, depth, currentDomains, includeCount, dns)

\* the try block after resolveTxt settled, with the catch block for its error
txtSettled(txtRecords, domain, depth, currentDomains, includeCount, dns) ==
  IF txtRecords.threw
    THEN [result |-> failure(MsgThrown(txtRecords.error)), queries |-> <<domain>>]
    ELSE checkExistence(SelectSeq(flat(txtRecords.value), isSpfText),
                        domain, depth, currentDomains, includeCount, dns)

\* the call from "Create a new set for this validation" on, for the cleaned
\* domain
validateCleaned(domain, depth, parentDomains, includeCount, dns) ==
  txtSettled(resolveTxt(domain, dns[domain]), domain, depth,
             setAdd(parentDomains, domain), includeCount, dns)

validateSPF(domainArg, depth, parentDomains, includeCount, dns) ==
  IF earlyReturn(domainArg, depth, parentDomains, includeCount) # None
    THEN [result  |-> earlyReturn(domainArg, depth, parentDomains, includeCount)[1],
          queries |-> <<>>]
    ELSE validateCleaned(cleanDomain(domainArg)[1], depth, parentDomains,
                         includeCount, dns)

(***************************************************************************)
(* dkim-validator.ts and dmarc-validator.ts                                 *)
(***************************************************************************)
DKIM_LABEL ==
  <<".","_","d","o","m","a","i","n","k","e","y",".">>

DMARC_LABEL ==
  <<"_","d","m","a","r","c",".">>

DKIM_TAG ==
  <<"v","=","d","k","i","m","1">>

DMARC_TAG ==
  <<"v","=","d","m","a","r","c","1">>

STATUS_3 ==
  <<"s","t","a","t","u","s"," ","3">>

ERR_INVALID_SELECTOR ==
  <<"I","n","v","a","l","i","d"," ","D","K","I","M"," ","s","e","l","e","c",
    "t","o","r">>

ERR_INVALID_DOMAIN ==
  <<"I","n","v","a","l","i","d"," ","d","o","m","a","i","n">>

ERR_NO_DKIM ==
  <<"N","o"," ","D","K","I","M"," ","r","e","c","o","r","d"," ","f","o","u",
    "n","d">>

ERR_NO_DKIM_NXDOMAIN ==
  <<"N","o"," ","D","K","I","M"," ","r","e","c","o","r","d"," ","f","o","u",
    "n","d"," ","(","N","X","D","O","M","A","I","N",")">>

ERR_DNS ==
  <<"D","N","S"," ","e","r","r","o","r">>

ERR_NO_DMARC ==
  <<"N","o"," ","D","M","A","R","C"," ","r","e","c","o","r","d"," ","f","o",
    "u","n","d">>

ERR_NO_DMARC_NXDOMAIN ==
  <<"N","o"," ","D","M","A","R","C"," ","r","e","c","o","r","d"," ","f","o",
    "u","n","d"," ","(","N","X","D","O","M","A","I","N",")">>

ERR_NOT_DMARC ==
  <<"R","e","c","o","r","d"," ","d","o","e","s"," ","n","o","t"," ","s","t",
    "a","r","t"," ","w","i","t","h"," ","v","=","D","M","A","R","C","1">>

ERR_MISSING_POLICY ==
  <<"M","i","s","s","i","n","g"," ","r","e","q","u","i","r","e","d"," ","p",
    "o","l","i","c","y"," ","(","p","=",")"," ","t","a","g">>

ERR_INVALID_POLICY ==
  <<"I","n","v","a","l","i","d"," ","p","o","l","i","c","y"," ","v","a","l",
    "u","e",":"," ">>

ERR_INVALID_DMARC ==
  <<"I","n","v","a","l","i","d"," ","D","M","A","R","C"," ","r","e","c","o",
    "r","d">>

POLICY_NONE ==
  <<"n","o","n","e">>

POLICY_QUARANTINE ==
  <<"q","u","a","r","a","n","t","i","n","e">>

POLICY_REJECT ==
  <<"r","e","j","e","c","t">>

MAX_SELECTOR_LENGTH == 63

\* isValidDomain of dkim-validator.ts
dkimIsValidDomain(domain) ==
  /\ domain # <<>>
  /\ Len(domain) <= MAX_NAME_LENGTH
  /\ hasChar(domain, ".")
  /\ LET labels == splitChar(domain, ".")
     IN  \A i \in 1..Len(labels) :
           /\ Len(labels[i]) > 0
           /\ Len(labels[i]) <= MAX_LABEL_LENGTH
           /\ labelRegex(labels[i])

\* /^[a-zA-Z0-9_-]{1,63}$/
isValidSelector(selector) ==
  /\ selector # <<>>
  /\ Len(selector) <= MAX_SELECTOR_LENGTH
  /\ \A i \in 1..Len(selector) : selector[i] \in AlnumChars \cup {"_", "-"}

\* array.join(sep)
RECURSIVE join(_, _)
join(texts, sep) ==
  IF texts = <<>> THEN <<>>
  ELSE IF Len(texts) = 1 THEN texts[1]
  ELSE texts[1] \o sep \o join(Tail(texts), sep)

\* txtRecords.map(r => r.join('')).join('\n')
flatRecords(txtRecords) ==
  join([i \in 1..Len(txtRecords) |-> join(txtRecords[i], <<>>)], <<"\n">>)

\* whether /<tag>\s*;[^\n]+/i matches s at offset i, tag in lower case
versionMatchAt(s, tag, i) ==
  /\ i + Len(tag) - 1 <= Len(s)
  /\ toLowerCase(SubSeq(s, i, i + Len(tag) - 1)) = tag
  /\ LET rest == trimStart(SubSeq(s, i + Len(tag), Len(s)))
     IN  /\ Len(rest) >= 2
         /\ rest[1] = ";"
         /\ rest[2] # "\n"

\* length of the longest prefix of s without a line feed
RECURSIVE lineRun(_)
lineRun(s) == IF s # <<>> /\ Head(s) # "\n" THEN 1 + lineRun(Tail(s)) ELSE 0

\* s.match(/<tag>\s*;[^\n]+/i): None, or Some(match[0])
versionMatch(s, tag) ==
  IF ~\E i \in 1..Len(s) : versionMatchAt(s, tag, i) THEN None
  ELSE LET i == CHOOSE k \in 1..Len(s) :
                  /\ versionMatchAt(s, tag, k)
                  /\ \A j \in 1..(k - 1) : ~versionMatchAt(s, tag, j)
           afterTag == SubSeq(s, i + Len(tag), Len(s))
           spaces   == Len(afterTag) - Len(trimStart(afterTag))
           tagged   == SubSeq(s, i + Len(tag) + spaces + 1, Len(s))
       IN  Some(SubSeq(s, i, i + Len(tag) + spaces + lineRun(tagged)))

\* error?.message || fallback of the catch blocks
errorMessageOr(error, fallback) ==
  IF error.message = <<>> THEN fallback ELSE error.message

\* typeof error?.message === 'string' && error.message.includes('status 3')
isNxdomainError(error) == includes(error.message, STATUS_3)

validateDKIM(selector, domain, transport) ==
  LET base == [selector |-> selector, domain |-> domain, valid |-> FALSE,
               error |-> None, record |-> None]
  IN
  IF ~isValidSelector(selector)
    THEN Return([base EXCEPT !.error = Some(ERR_INVALID_SELECTOR)])
  ELSE IF ~dkimIsValidDomain(domain)
    THEN Return([base EXCEPT !.error = Some(ERR_INVALID_DOMAIN)])
  ELSE
  LET dkimHostname == selector \o DKIM_LABEL \o domain
      txtRecords   == resolveTxt(dkimHostname, transport)
  IN
  IF txtRecords.threw
    THEN IF isNxdomainError(txtRecords.error)
           THEN Return([base EXCEPT !.error = Some(ERR_NO_DKIM_NXDOMAIN)])
           ELSE Return([base EXCEPT
                  !.error = Some(errorMessageOr(txtRecords.error, ERR_DNS))])
  ELSE
  LET match == versionMatch(flatRecords(txtRecords.value), DKIM_TAG)
  IN  IF match = None
        THEN Return([base EXCEPT !.error = Some(ERR_NO_DKIM)])
        ELSE Return([base EXCEPT !.valid = TRUE, !.record = match])

\* tagKey that folds the key to lower case
tagKeyFolded(tag) == toLowerCase(trim(splitChar(tag, "=")[1]))

\* the tagMap of parseDMARCRecord: the value the last tag named key gives
isEqualsTag(tag) == splitChar(tag, "=")[1] # <<>> /\ Len(splitChar(tag, "=")) > 1

tagKey(tag) == trim(splitChar(tag, "=")[1])

tagValue(tag) == trim(join(Tail(splitChar(tag, "=")), <<"=">>))

tagMapGet(tags, key) ==
  LET hits == { i \in 1..Len(tags) : isEqualsTag(tags[i]) /\ tagKey(tags[i]) = key }
  IN  IF hits = {} THEN None
      ELSE Some(tagValue(tags[CHOOSE i \in hits : \A j \in hits : j <= i]))

parseDMARCRecord(record) ==
  IF record = <<>> \/ ~startsWith(toLowerCase(trim(record)), DMARC_TAG)
    THEN [valid |-> FALSE, policy |-> None, error |-> Some(ERR_NOT_DMARC)]
  ELSE
  LET pieces == splitChar(record, ";")
      tags   == SelectSeq([i \in 1..Len(pieces) |-> trim(pieces[i])], isNotEmpty)
      p      == tagMapGet(tags, <<"p">>)
  IN  IF p = None \/ p = Some(<<>>)
        THEN [valid |-> FALSE, policy |-> None, error |-> Some(ERR_MISSING_POLICY)]
      ELSE IF p[1] \notin {POLICY_NONE, POLICY_QUARANTINE, POLICY_REJECT}
        THEN [valid |-> FALSE, policy |-> None,
              error |-> Some(ERR_INVALID_POLICY \o p[1])]
      ELSE [valid |-> TRUE, policy |-> p, error |-> None]

validateDMARC(domain, transport) ==
  LET base == [valid |-> FALSE, policy |-> None, record |-> None, error |-> None]
      dmarcDomain == DMARC_LABEL \o domain
      txtRecords  == resolveTxt(dmarcDomain, transport)
  IN
  IF txtRecords.threw
    THEN IF isNxdomainError(txtRecords.error)
           THEN Return([base EXCEPT !.error = Some(Error(ERR_NO_DMARC_NXDOMAIN))])
           ELSE Return([base EXCEPT
                  !.error = Some(Error(errorMessageOr(txtRecords.error, ERR_DNS)))])
  ELSE
  LET match == versionMatch(flatRecords(txtRecords.value), DMARC_TAG)
  IN
  IF match = None THEN Return([base EXCEPT !.error = Some(Error(ERR_NO_DMARC))])
  ELSE
  LET parsed == parseDMARCRecord(match[1])
  IN  IF ~parsed.valid
        THEN Return([base EXCEPT
               !.record = match,
               !.error = Some(Error(IF parsed.error = None \/ parsed.error = Some(<<>>)
                                      THEN ERR_INVALID_DMARC
                                      ELSE parsed.error[1]))])
        ELSE Return([base EXCEPT !.valid = TRUE, !.policy = parsed.policy,
                                 !.record = match])

(***************************************************************************)
(* The environment: hostnames, published TXT records and transport          *)
(* behaviours the calls are checked on.                                     *)
(***************************************************************************)
EXAMPLE_COM ==
  <<"e","x","a","m","p","l","e",".","c","o","m">>

SPF_A_NET ==
  <<"s","p","f",".","a",".","n","e","t">>

MAIL_EXAMPLE_ORG ==
  <<"m","a","i","l",".","e","x","a","m","p","l","e",".","o","r","g">>

USPF_EXAMPLE_NET ==
  <<"_","s","p","f",".","e","x","a","m","p","l","e",".","n","e","t">>

BRACKETED_EXAMPLE_COM ==
  <<" ","[","e","x","a","m","p","l","e",".","c","o","m","]"," ">>

BAD_DOMAIN ==
  <<"b","a","d"," ","d","o","m","a","i","n","!">>

IP4_TERM ==
  <<"i","p","4",":","5",".","6",".","7",".","8">>

NOT_SPF_TEXT ==
  <<"n","o","t","-","a","n","-","s","p","f","-","r","e","c","o","r","d">>

NETWORK_ERROR ==
  <<"N","e","t","w","o","r","k"," ","e","r","r","o","r">>

SERVER_ERROR ==
  <<"S","e","r","v","e","r"," ","E","r","r","o","r">>

\* bounds of the checked inputs
WideIncludes == 11
MaxDepthArg == 6

Hosts == {EXAMPLE_COM, SPF_A_NET, MAIL_EXAMPLE_ORG}

Targets == Hosts \cup {USPF_EXAMPLE_NET}

IncludeTerm(d) == INCLUDE_NAME \o <<":">> \o d

RedirectTerm(d) == REDIRECT_NAME \o <<"=">> \o d

AllTerm(q) == <<q>> \o ALL_NAME

RECURSIVE SpfTerms(_)
SpfTerms(terms) ==
  IF terms = <<>> THEN <<>> ELSE <<" ">> \o Head(terms) \o SpfTerms(Tail(terms))

\* the text of an SPF record with the given terms
SpfText(terms) == SPF_PREFIX \o SpfTerms(terms)

Repeat(term, n) == [i \in 1..n |-> term]

\* transport behaviours
Responding ==
  [fetch |-> "response", thrown |-> Error(<<>>), ok |-> TRUE, status |-> 200,
   text |-> None, json |-> "object", jsonError |-> Error(<<>>),
   Status |-> Some(0), Comment |-> None, Answer |-> None]

\* a TXT answer's data is the text in double quotes
TxtAnswers(texts) ==
  [Responding EXCEPT
     !.Answer = Some([i \in 1..Len(texts) |->
                        [data |-> Some(<<"\"">> \o texts[i] \o <<"\"">>)]])]

DnsStatus(n) == [Responding EXCEPT !.Status = Some(n)]

HttpStatus(code, body) ==
  [Responding EXCEPT !.ok = FALSE, !.status = code, !.text = Some(body)]

FetchAbort == [Responding EXCEPT !.fetch = "abort"]

FetchReject(error) == [Responding EXCEPT !.fetch = "reject", !.thrown = error]

JsonReject(error) == [Responding EXCEPT !.json = "reject", !.jsonError = error]

JsonNonObject == [Responding EXCEPT !.json = "nonobject"]

\* a thrown value that is no Error: a string, or anything else
ThrownString(text) == [name |-> "NotAnError", isString |-> TRUE, message |-> text]
ThrownOther == [name |-> "NotAnError", isString |-> FALSE, message |-> <<>>]

\* what a host may publish or how its query may fail
RootMenu ==
  {DnsStatus(3), FetchAbort, TxtAnswers(<<NOT_SPF_TEXT>>),
   TxtAnswers(<<SpfText(<<IP4_TERM, AllTerm("-")>>)>>),
   TxtAnswers(<<SpfText(<<IP4_TERM>>)>>),
   TxtAnswers(<<SpfText(<<IP4_TERM, AllTerm("!")>>)>>)}
  \cup {TxtAnswers(<<SpfText(<<IncludeTerm(x), AllTerm("-")>>)>>) : x \in Targets}
  \cup {TxtAnswers(<<SpfText(<<RedirectTerm(x)>>)>>) : x \in Targets}
  \cup {TxtAnswers(<<SpfText(<<RedirectTerm(x), AllTerm("~")>>)>>) : x \in Hosts}
  \cup {TxtAnswers(<<SpfText(<<IncludeTerm(x), IncludeTerm(y), ALL_NAME>>)>>) :
          x \in {SPF_A_NET}, y \in Hosts}
  \cup {TxtAnswers(<<SpfText(<<IncludeTerm(SPF_A_NET),
                               RedirectTerm(MAIL_EXAMPLE_ORG), AllTerm("?")>>)>>),
        TxtAnswers(<<SpfText(<<AllTerm("-")>>),
                     SpfText(<<IncludeTerm(SPF_A_NET), AllTerm("~")>>)>>),
        TxtAnswers(<<SpfText(<<AllTerm("-")>>),
                     SpfText(<<RedirectTerm(SPF_A_NET)>>)>>),
        TxtAnswers(<<SpfText(<<RedirectTerm(SPF_A_NET)>>),
                     SpfText(<<AllTerm("-")>>)>>),
        TxtAnswers(<<SpfText(<<IncludeTerm(SPF_A_NET), AllTerm("~")>>),
                     SpfText(<<AllTerm("-")>>)>>),
        TxtAnswers(<<SpfText(Repeat(IncludeTerm(SPF_A_NET), WideIncludes)
                               \o <<AllTerm("-")>>)>>)}

InnerMenu ==
  {DnsStatus(3), TxtAnswers(<<NOT_SPF_TEXT>>),
   TxtAnswers(<<SpfText(<<IP4_TERM, AllTerm("-")>>)>>),
   TxtAnswers(<<SpfText(<<IP4_TERM, AllTerm("~")>>)>>),
   TxtAnswers(<<SpfText(<<IncludeTerm(MAIL_EXAMPLE_ORG),
                          IncludeTerm(MAIL_EXAMPLE_ORG), AllTerm("-")>>)>>)}
  \cup {TxtAnswers(<<SpfText(<<IncludeTerm(x), AllTerm("-")>>)>>) : x \in Hosts}
  \cup {TxtAnswers(<<SpfText(<<RedirectTerm(x)>>)>>) : x \in Hosts}

LeafMenu ==
  {FetchAbort,
   TxtAnswers(<<SpfText(<<IP4_TERM, AllTerm("-")>>)>>),
   TxtAnswers(<<SpfText(<<IP4_TERM, ALL_NAME>>)>>),
   TxtAnswers(<<SpfText(<<IncludeTerm(EXAMPLE_COM), AllTerm("-")>>)>>),
   TxtAnswers(<<SpfText(<<RedirectTerm(EXAMPLE_COM)>>)>>)}

UnderscoreMenu ==
  {TxtAnswers(<<SpfText(<<IP4_TERM, AllTerm("-")>>)>>),
   TxtAnswers(<<SpfText(<<IP4_TERM, AllTerm("~")>>)>>)}

Zone(root, inner, leaf, underscore) ==
  (EXAMPLE_COM :> root) @@ (SPF_A_NET :> inner)
    @@ (MAIL_EXAMPLE_ORG :> leaf) @@ (USPF_EXAMPLE_NET :> underscore)

\* the zones a top-level call is checked on
Zones ==
  {Zone(r, i, l, TxtAnswers(<<SpfText(<<IP4_TERM, AllTerm("-")>>)>>)) :
     r \in RootMenu, i \in InnerMenu, l \in LeafMenu}
  \cup {Zone(r, TxtAnswers(<<SpfText(<<IP4_TERM, AllTerm("-")>>)>>),
              TxtAnswers(<<SpfText(<<IP4_TERM, AllTerm("-")>>)>>), u) :
          r \in RootMenu, u \in UnderscoreMenu}

DKIM_RECORD_TEXT ==
  <<"v","=","D","K","I","M","1",";"," ","k","=","r","s","a",";"," ","p","=",
    "M","I","G","f","M","A","0","G">>

DMARC_REJECT_TEXT ==
  <<"v","=","D","M","A","R","C","1",";"," ","p","=","r","e","j","e","c","t",
    ";"," ","r","u","a","=","m","a","i","l","t","o",":","d","@","e","x","a",
    "m","p","l","e",".","c","o","m">>

DMARC_NONE_TEXT ==
  <<"v","=","D","M","A","R","C","1",";"," ","p","=","n","o","n","e">>

DMARC_QUARANTINE_TEXT ==
  <<"v","=","D","M","A","R","C","1",";","p","=","q","u","a","r","a","n","t",
    "i","n","e">>

DMARC_NO_POLICY_TEXT ==
  <<"v","=","D","M","A","R","C","1",";"," ","r","u","a","=","m","a","i","l",
    "t","o",":","d","@","e","x","a","m","p","l","e",".","c","o","m">>

DMARC_BOGUS_TEXT ==
  <<"v","=","D","M","A","R","C","1",";"," ","p","=","b","o","g","u","s">>

SELECTOR_DEFAULT ==
  <<"d","e","f","a","u","l","t">>

SELECTOR_BAD ==
  <<"b","a","d"," ","s","e","l","e","c","t","o","r">>

JSON_SYNTAX_ERROR ==
  <<"U","n","e","x","p","e","c","t","e","d"," ","t","o","k","e","n"," ","<",
    " ","i","n"," ","J","S","O","N">>

MOVED_TEXT ==
  <<"M","o","v","e","d"," ","P","e","r","m","a","n","e","n","t","l","y">>

\* a name longer than MAX_DOMAIN_LENGTH once a label is put before it
LONG_NAME == [i \in 1..250 |-> "a"] \o <<".", "c", "o", "m">>

\* the zones a call with explicit depth, parentDomains and includeCount is
\* checked on
ArgZones ==
  {Zone(r, i, TxtAnswers(<<SpfText(<<IP4_TERM, AllTerm("-")>>)>>),
        TxtAnswers(<<SpfText(<<IP4_TERM, AllTerm("-")>>)>>)) :
     r \in {TxtAnswers(<<NOT_SPF_TEXT>>),
            TxtAnswers(<<SpfText(<<IP4_TERM, AllTerm("-")>>)>>),
            TxtAnswers(<<SpfText(<<IncludeTerm(SPF_A_NET), AllTerm("-")>>)>>),
            TxtAnswers(<<SpfText(<<RedirectTerm(SPF_A_NET)>>)>>)},
     i \in {TxtAnswers(<<SpfText(<<IP4_TERM, AllTerm("~")>>)>>),
            TxtAnswers(<<SpfText(<<IncludeTerm(MAIL_EXAMPLE_ORG),
                                   AllTerm("-")>>)>>)}}

ArgDomains ==
  {EXAMPLE_COM, SPF_A_NET, USPF_EXAMPLE_NET, BRACKETED_EXAMPLE_COM,
   BAD_DOMAIN, <<>>}

ArgParents ==
  {<<>>, <<SPF_A_NET>>, <<EXAMPLE_COM>>, <<MAIL_EXAMPLE_ORG, EXAMPLE_COM>>}

ArgCounts == {0, MAX_INCLUDES - 1, MAX_INCLUDES, MAX_INCLUDES + 1}

\* the transport behaviours a DKIM or DMARC lookup is checked on
FailingTransports ==
  {DnsStatus(3), DnsStatus(2), [Responding EXCEPT !.Status = None],
   HttpStatus(500, SERVER_ERROR), HttpStatus(301, MOVED_TEXT),
   [HttpStatus(500, SERVER_ERROR) EXCEPT !.text = None],
   FetchAbort, FetchReject(Error(NETWORK_ERROR)),
   FetchReject(ThrownString(NETWORK_ERROR)), FetchReject(ThrownOther),
   JsonReject(Error(JSON_SYNTAX_ERROR)), JsonReject(ThrownOther), JsonNonObject}

DkimTransports ==
  FailingTransports
    \cup {TxtAnswers(<<DKIM_RECORD_TEXT>>), TxtAnswers(<<NOT_SPF_TEXT>>),
          TxtAnswers(<<>>), Responding}

\* the tags a published DMARC record is built from, and the records of one
\* or two tags with at most one tag named p
DmarcTags ==
  [key   : {<<"p">>, <<"s","p">>, <<"P">>},
   value : {POLICY_NONE, POLICY_QUARANTINE, POLICY_REJECT,
            <<"b","o","g","u","s">>, <<"R","e","j","e","c","t">>, <<>>}]

DmarcTagLists ==
  {<<t>> : t \in DmarcTags}
    \cup {l \in DmarcTags \X DmarcTags : l[1].key # <<"p">> \/ l[2].key # <<"p">>}

\* the record text: the version tag, then "; key=value" for each tag
RECURSIVE DmarcText(_)
DmarcText(tags) ==
  IF tags = <<>> THEN <<"v","=","D","M","A","R","C","1">>
  ELSE DmarcText(SubSeq(tags, 1, Len(tags) - 1))
         \o <<";", " ">> \o tags[Len(tags)].key \o <<"=">> \o tags[Len(tags)].value

DmarcTransports ==
  FailingTransports
    \cup {TxtAnswers(<<DmarcText(tags)>>) : tags \in DmarcTagLists}
    \cup {TxtAnswers(<<t>>) :
            t \in {DMARC_REJECT_TEXT, DMARC_NONE_TEXT, DMARC_QUARANTINE_TEXT,
                   DMARC_NO_POLICY_TEXT, DMARC_BOGUS_TEXT, NOT_SPF_TEXT}}
    \cup {TxtAnswers(<<NOT_SPF_TEXT, DMARC_REJECT_TEXT>>), Responding}

(***************************************************************************)
(* Specification Spec: the validators, one call at a time.  A call is an    *)
(* action: it takes its arguments and the environment, and leaves what the  *)
(* call settled with (outcome) and the TXT queries it issued (queried).     *)
(***************************************************************************)
VARIABLES pc, call, outcome, queried, net, tasks

vars == <<pc, call, outcome, queried, net, tasks>>

\* one resolver query as the event loop sees it: the clock, Date.now() at the
\* start of the call, the timer of fetchWithTimeout (None: not armed) and the
\* state of the request
NetIdle == [clock |-> 0, startTime |-> 0, timer |-> None, request |-> "none"]

\* the calls of validateSPF in progress (frames) with the clock they run on
TasksIdle == [clock |-> 0, frames |-> <<>>]

NoCall == [fn |-> "none"]

Init ==
  /\ pc = "idle"
  /\ call = NoCall
  /\ outcome = Return(<<>>)
  /\ queried = <<>>
  /\ net = NetIdle
  /\ tasks = TasksIdle

\* the request resolveTxt(hostname) issues: none for a hostname it rejects
issued(hostname) ==
  IF hostname = <<>> \/ Len(hostname) > MAX_DOMAIN_LENGTH THEN <<>>
                                                          ELSE <<hostname>>

\* the queries a call had issued when its deadline expired: the first one is
\* issued before the timer is armed
IssuedBeforeExpiry(queries) == { SubSeq(queries, 1, n) : n \in 1..Len(queries) }

\* validateSPF as its caller sees it: withTimeout settles the call with the
\* evaluation's result, or, once SPF_TIMEOUT_MS have passed, with the timeout
\* error the catch block turns into a failure
Settled(evaluation, domain, depth, parentDomains, includeCount, dns, expired) ==
  /\ pc = "idle"
  /\ pc' = "returned"
  /\ call' = [fn |-> "validateSPF", domain |-> domain, depth |-> depth,
              parentDomains |-> parentDomains, includeCount |-> includeCount,
              dns |-> dns, expired |-> expired]
  /\ IF expired /\ evaluation.queries # <<>>
       THEN /\ outcome' = Return(failure(MsgSpfTimeout(cleanDomain(domain)[1])))
            /\ queried' \in IssuedBeforeExpiry(evaluation.queries)
       ELSE /\ outcome' = Return(evaluation.result)
            /\ queried' = evaluation.queries
  /\ UNCHANGED <<net, tasks>>

SettleValidateSPF(domain, depth, parentDomains, includeCount, dns, expired) ==
  Settled(validateSPF(domain, depth, parentDomains, includeCount, dns),
          domain, depth, parentDomains, includeCount, dns, expired)

\* validateSPF(domain)
CallValidateSPF ==
  \E dns \in Zones, expired \in BOOLEAN :
    SettleValidateSPF(EXAMPLE_COM, 0, <<>>, 0, dns, expired)

\* validateSPF(domain, depth, parentDomains, includeCount)
CallValidateSPFAt ==
  \E dns \in ArgZones, domain \in ArgDomains, depth \in 0..MaxDepthArg,
     parentDomains \in ArgParents, includeCount \in ArgCounts, expired \in BOOLEAN :
    SettleValidateSPF(domain, depth, parentDomains, includeCount, dns, expired)

CallValidateDKIM ==
  \E selector \in {SELECTOR_DEFAULT, SELECTOR_BAD, <<>>},
     domain \in {EXAMPLE_COM, BAD_DOMAIN, LONG_NAME},
     transport \in DkimTransports :
    /\ pc = "idle"
    /\ pc' = "returned"
    /\ call' = [fn |-> "validateDKIM", selector |-> selector, domain |-> domain,
                transport |-> transport]
    /\ outcome' = validateDKIM(selector, domain, transport)
    /\ queried' = IF isValidSelector(selector) /\ dkimIsValidDomain(domain)
                    THEN issued(selector \o DKIM_LABEL \o domain) ELSE <<>>
    /\ UNCHANGED <<net, tasks>>

CallValidateDMARC ==
  \E domain \in {EXAMPLE_COM, BAD_DOMAIN, LONG_NAME, <<>>},
     transport \in DmarcTransports :
    /\ pc = "idle"
    /\ pc' = "returned"
    /\ call' = [fn |-> "validateDMARC", domain |-> domain, transport |-> transport]
    /\ outcome' = validateDMARC(domain, transport)
    /\ queried' = issued(DMARC_LABEL \o domain)
    /\ UNCHANGED <<net, tasks>>

\* the caller takes the result
Done ==
  /\ pc = "returned"
  /\ pc' = "idle"
  /\ call' = NoCall
  /\ outcome' = Return(<<>>)
  /\ queried' = <<>>
  /\ UNCHANGED <<net, tasks>>

Next ==
  \/ CallValidateSPF
  \/ CallValidateSPFAt
  \/ CallValidateDKIM
  \/ CallValidateDMARC
  \/ Done

Spec == Init /\ [][Next]_vars

(***************************************************************************)
(* Specification SpecResolver: one call of a resolver function, step by     *)
(* step.  The call validates the hostname and dispatches the request with   *)
(* the timer of fetchWithTimeout armed; then fetch resolves with the        *)
(* response headers, or rejects, or the timer fires and aborts the request; *)
(* after the headers the body is read, which no timer bounds.  The clock    *)
(* advances in steps of TickMs and never passes an armed timer.             *)
(***************************************************************************)
\* bounds of the checked runs
TickMs == 2500
MaxClock == 10000

MX_LOW  == <<"1","0"," ","M","a","i","l",".","E","x","a","m","p","l","e",".","c","o","m",".">>
MX_HIGH == <<"2","0"," ","b",".","e","x","a","m","p","l","e",".","c","o","m">>
MX_MALFORMED == <<"m","a","i","l",".","e","x","a","m","p","l","e",".","c","o","m">>
A_DATA == <<"1",".","2",".","3",".","4">>
TIMED_OUT_BODY == <<"G","a","t","e","w","a","y"," ","t","i","m","e","d"," ","o","u","t">>

Answers(entries) == [Responding EXCEPT !.Answer = Some(entries)]

\* the transport behaviours a resolver call is checked on
ResolverTransports ==
  FailingTransports
    \cup {HttpStatus(504, TIMED_OUT_BODY),
          [DnsStatus(2) EXCEPT !.Comment = Some(SERVER_ERROR)],
          Responding,
          Answers(<<>>),
          Answers(<<[data |-> Some(MX_HIGH), type |-> 15],
                    [data |-> Some(MX_LOW), type |-> 15]>>),
          Answers(<<[data |-> Some(MX_MALFORMED), type |-> 15]>>),
          Answers(<<[data |-> None, type |-> 15]>>),
          Answers(<<[data |-> Some(A_DATA), type |-> 1],
                    [data |-> Some(MX_MALFORMED), type |-> 5]>>),
          Answers(<<[data |-> Some(<<"\"">> \o SpfText(<<AllTerm("-")>>) \o <<"\"">>),
                     type |-> 16]>>)}

ResolverFns == {"resolveTxt", "resolveMx", "resolveCname", "resolveA", "resolveAAAA"}

\* the resolver function named fn
resolve(fn, hostname, transport, duration) ==
  CASE fn = "resolveTxt"   -> resolveTxt(hostname, transport)
    [] fn = "resolveMx"    -> resolveMx(hostname, transport)
    [] fn = "resolveCname" -> resolveCname(hostname, transport)
    [] fn = "resolveA"     -> resolveA(hostname, transport, duration)
    [] fn = "resolveAAAA"  -> resolveAAAA(hostname, transport, duration)

\* a setTimeout that arms nothing
setTimeoutUnarmed(now, timeout) == None

\* setTimeout(callback, timeout) at the time now: the timer's due time
setTimeout(now, timeout) == Some(now + timeout)

\* clearTimeout that leaves the timer armed
clearTimeoutForgotten(timeoutId) == timeoutId

\* clearTimeout(timeoutId)
clearTimeout(timeoutId) == None

\* the call up to the await of fetch: a hostname the function rejects ends
\* the call before any request
ResolverCall ==
  \E fn \in ResolverFns, hostname \in {EXAMPLE_COM, LONG_NAME, <<>>},
     transport \in ResolverTransports :
    /\ pc = "idle"
    /\ call' = [fn |-> fn, hostname |-> hostname, transport |-> transport]
    /\ IF isInvalidHostname(hostname)
         THEN /\ pc' = "returned"
              /\ outcome' = resolve(fn, hostname, transport, 0)
              /\ queried' = <<>>
              /\ net' = net
         ELSE /\ pc' = "fetching"
              /\ outcome' = outcome
              /\ queried' = <<hostname>>
              /\ net' = [net EXCEPT !.startTime = net.clock,
                                    !.timer = setTimeout(net.clock, QUERY_TIMEOUT_MS),
                                    !.request = "inflight"]
    /\ UNCHANGED tasks

\* fetch resolves with the response: "clearTimeout(timeoutId); return response"
FetchResolves ==
  /\ pc = "fetching"
  /\ net.request = "inflight"
  /\ call.transport.fetch = "response"
  /\ pc' = "reading"
  /\ net' = [net EXCEPT !.timer = clearTimeout(@), !.request = "responded"]
  /\ UNCHANGED <<call, outcome, queried, tasks>>

\* fetch rejects by itself: the catch block clears the timer and rethrows
FetchRejects ==
  /\ pc = "fetching"
  /\ net.request = "inflight"
  /\ call.transport.fetch = "reject"
  /\ pc' = "returned"
  /\ net' = [net EXCEPT !.timer = clearTimeout(@), !.request = "rejected"]
  /\ outcome' = resolve(call.fn, call.hostname, call.transport,
                        net.clock - net.startTime)
  /\ UNCHANGED <<call, queried, tasks>>

\* the timer is due: controller.abort(); a request in flight rejects with the
\* AbortError
TimerFires ==
  /\ net.timer # None
  /\ net.clock >= net.timer[1]
  /\ net' = [net EXCEPT !.timer = None, !.request = "aborted"]
  /\ IF pc = "fetching"
       THEN /\ pc' = "returned"
            /\ outcome' = resolve(call.fn, call.hostname,
                                  [call.transport EXCEPT !.fetch = "abort"],
                                  net.clock - net.startTime)
       ELSE UNCHANGED <<pc, outcome>>
  /\ UNCHANGED <<call, queried, tasks>>

\* response.text() or response.json() settles and the call runs to its end
BodyRead ==
  /\ pc = "reading"
  /\ pc' = "returned"
  /\ outcome' = resolve(call.fn, call.hostname, call.transport,
                        net.clock - net.startTime)
  /\ UNCHANGED <<call, queried, net, tasks>>

\* time passes, up to the next timer that is due
Tick ==
  /\ pc \in {"fetching", "reading"}
  /\ net.clock < MaxClock
  /\ net.timer # None => net.clock < net.timer[1]
  /\ net' = [net EXCEPT
               !.clock = IF net.timer # None /\ net.clock + TickMs > net.timer[1]
                           THEN net.timer[1] ELSE net.clock + TickMs]
  /\ UNCHANGED <<pc, call, outcome, queried, tasks>>

\* the caller takes the outcome
ResolverDone ==
  /\ pc = "returned"
  /\ pc' = "idle"
  /\ call' = NoCall
  /\ outcome' = Return(<<>>)
  /\ queried' = <<>>
  /\ net' = NetIdle
  /\ UNCHANGED tasks

NextResolver ==
  \/ ResolverCall
  \/ FetchResolves
  \/ FetchRejects
  \/ TimerFires
  \/ BodyRead
  \/ Tick
  \/ ResolverDone

SpecResolver == Init /\ [][NextResolver]_vars

(***************************************************************************)
(* Specification SpecAsync: a top-level validateSPF as the event loop runs  *)
(* it.  Every call that gets past its early returns is a frame: its async   *)
(* function issues the TXT query, withTimeout arms the 15 s timer and the   *)
(* call awaits the race of the two.  A frame holds                          *)
(*   timer, promise   the timer of withTimeout and the state of the promise *)
(*                    the caller awaits                                     *)
(*   request, requestTimer   the TXT request and the timer of               *)
(*                    fetchWithTimeout                                      *)
(*   phase            where the async function stands: "txt" (awaiting      *)
(*                    resolveTxt), "include" or "redirect" (awaiting a      *)
(*                    child call), "finished"                               *)
(*   acc, parsed, i   result, parsedRecord and the position in the include  *)
(*                    loop                                                  *)
(*   settledWith      the number of frames at the time the promise settled  *)
(***************************************************************************)
\* bounds of the checked runs
AsyncTickMs == 5000
MaxAsyncClock == 20000

frameOf(domain, depth, parentDomains, includeCount, parent, now) ==
  [domain |-> domain, depth |-> depth,
   currentDomains |-> setAdd(parentDomains, domain),
   includeCount |-> includeCount, parent |-> parent,
   timer |-> setTimeout(now, SPF_TIMEOUT_MS), promise |-> "pending",
   request |-> "inflight", requestTimer |-> setTimeout(now, QUERY_TIMEOUT_MS),
   phase |-> "txt", acc |-> emptyResult, parsed |-> None, i |-> 0,
   result |-> None, settledWith |-> 0]

RECURSIVE resume(_, _, _)
RECURSIVE runIncludes(_, _)

\* the promise of frame f settles with result: the awaiting caller goes on
settle(t, f, result) ==
  IF t.frames[f].parent = 0
    THEN [t EXCEPT !.frames[f].promise = "settled",
                   !.frames[f].result = Some(result),
                   !.frames[f].settledWith = Len(t.frames)]
    ELSE resume([t EXCEPT !.frames[f].promise = "settled",
                          !.frames[f].result = Some(result),
                          !.frames[f].settledWith = Len(t.frames)],
                t.frames[f].parent, result)

\* the async function of frame f ends, by a return or by a throw the catch
\* block turned into result: finally clears the timer, and the promise
\* settles unless the timeout settled it before
finishFrame(t, f, result) ==
  IF t.frames[f].promise = "pending"
    THEN settle([t EXCEPT !.frames[f].phase = "finished",
                          !.frames[f].timer = clearTimeout(@)],
                f, result)
    ELSE [t EXCEPT !.frames[f].phase = "finished",
                   !.frames[f].timer = clearTimeout(@)]

\* frame f calls validateSPF for a target: an early return settles at once,
\* otherwise the child's frame starts with its query in flight
callChild(t, f, target) ==
  IF earlyReturn(target, t.frames[f].depth + 1, t.frames[f].currentDomains,
                 childIncludeCount(t.frames[f].includeCount)) # None
    THEN resume(t, f,
                earlyReturn(target, t.frames[f].depth + 1,
                            t.frames[f].currentDomains,
                            childIncludeCount(t.frames[f].includeCount))[1])
    ELSE [t EXCEPT !.frames =
            Append(@, frameOf(cleanDomain(target)[1], t.frames[f].depth + 1,
                              t.frames[f].currentDomains,
                              childIncludeCount(t.frames[f].includeCount),
                              f, t.clock))]

\* "Process redirect" and step 5 of frame f
runRedirect(t, f) ==
  IF ~redirectFollowed(t.frames[f].acc, t.frames[f].parsed[1])
    THEN finishFrame(t, f, step5(t.frames[f].acc, FALSE, t.frames[f].parsed[1]))
  ELSE IF t.frames[f].includeCount >= MAX_INCLUDES
    THEN finishFrame(t, f, step5(addError(t.frames[f].acc, MsgIncludesReached),
                                 FALSE, t.frames[f].parsed[1]))
  ELSE callChild([t EXCEPT !.frames[f].phase = "redirect"], f,
                 t.frames[f].parsed[1].mechanisms.redirect[1])

\* "Process includes" of frame f from its i-th target on
runIncludes(t, f) ==
  IF t.frames[f].i > Len(t.frames[f].parsed[1].mechanisms.include)
    THEN runRedirect(t, f)
  ELSE IF t.frames[f].includeCount >= MAX_INCLUDES
    THEN runRedirect([t EXCEPT !.frames[f].acc = addError(@, MsgIncludesReached)], f)
  ELSE callChild(t, f, t.frames[f].parsed[1].mechanisms.include[t.frames[f].i])

\* the await of a child call in frame f yields childResult
resume(t, f, childResult) ==
  IF t.frames[f].phase = "include"
    THEN runIncludes(
           [t EXCEPT !.frames[f].acc =
                       afterInclude(@, t.frames[f].parsed[1].mechanisms.include[
                                         t.frames[f].i], childResult),
                     !.frames[f].i = @ + 1],
           f)
    ELSE finishFrame(
           t, f,
           step5(afterRedirect(t.frames[f].acc,
                               t.frames[f].parsed[1].mechanisms.redirect[1],
                               childResult),
                 childResult.isValid, t.frames[f].parsed[1]))

\* steps 2 to 4 of frame f, for the SPF records found, and on to the loop
recordsFound(t, f, spfRecords) ==
  IF spfRecords = <<>>
    THEN finishFrame(t, f, addError(emptyResult, MsgNoRecord))
  ELSE IF parseSPFRecord(spfRecords[1]) = None
    THEN finishFrame(t, f, addError(checkMultiple(spfRecords), MsgInvalidFormat))
  ELSE runIncludes(
         [t EXCEPT !.frames[f].acc = checkLookupCount(checkMultiple(spfRecords)),
                   !.frames[f].parsed = parseSPFRecord(spfRecords[1]),
                   !.frames[f].i = 1,
                   !.frames[f].phase = "include"],
         f)

\* the await of resolveTxt in frame f settles: a throw leaves the async
\* function for the catch block
txtAwaited(t, f, txtRecords) ==
  IF txtRecords.threw
    THEN finishFrame(t, f, failure(MsgThrown(txtRecords.error)))
    ELSE recordsFound(t, f, SelectSeq(flat(txtRecords.value), isSpfText))

\* the zones an evaluation is run on
AsyncZones ==
  {Zone(r, i, l, TxtAnswers(<<SpfText(<<IP4_TERM, AllTerm("-")>>)>>)) :
     r \in {TxtAnswers(<<SpfText(<<IncludeTerm(SPF_A_NET),
                                   IncludeTerm(MAIL_EXAMPLE_ORG), AllTerm("-")>>)>>),
            TxtAnswers(<<SpfText(<<IncludeTerm(SPF_A_NET), AllTerm("-")>>)>>),
            TxtAnswers(<<SpfText(<<RedirectTerm(SPF_A_NET)>>)>>)},
     i \in {TxtAnswers(<<SpfText(<<IP4_TERM, AllTerm("-")>>)>>),
            TxtAnswers(<<SpfText(<<IncludeTerm(MAIL_EXAMPLE_ORG), AllTerm("-")>>)>>),
            TxtAnswers(<<SpfText(<<IncludeTerm(EXAMPLE_COM), AllTerm("-")>>)>>),
            DnsStatus(3), FetchAbort, FetchReject(Error(NETWORK_ERROR))},
     l \in {TxtAnswers(<<SpfText(<<IP4_TERM, AllTerm("~")>>)>>), FetchAbort}}

\* the armed timers of the frames are not due before the time now
NoTimerDue(t, now) ==
  \A f \in 1..Len(t.frames) :
    /\ t.frames[f].timer # None => now < t.frames[f].timer[1]
    /\ t.frames[f].requestTimer # None => now < t.frames[f].requestTimer[1]

\* the event loop has run to the tasks t: the queries issued so far, and the
\* top-level call returns when the promise of its frame settles
Ran(t) ==
  /\ tasks' = t
  /\ queried' = [f \in 1..Len(t.frames) |-> t.frames[f].domain]
  /\ IF pc = "running" /\ t.frames[1].promise = "settled"
       THEN /\ pc' = "returned"
            /\ outcome' = Return(t.frames[1].result[1])
       ELSE UNCHANGED <<pc, outcome>>
  /\ UNCHANGED <<call, net>>

\* validateSPF(domain) up to its first await
AsyncCall ==
  \E dns \in AsyncZones :
    /\ pc = "idle"
    /\ pc' = "running"
    /\ call' = [fn |-> "validateSPF", domain |-> EXAMPLE_COM, depth |-> 0,
                parentDomains |-> <<>>, includeCount |-> 0, dns |-> dns,
                expired |-> FALSE]
    /\ tasks' = [tasks EXCEPT
                   !.frames = <<frameOf(EXAMPLE_COM, 0, <<>>, 0, 0, tasks.clock)>>]
    /\ queried' = <<EXAMPLE_COM>>
    /\ UNCHANGED <<outcome, net>>

\* fetch resolves with the response of a frame's request
AsyncFetchResolves ==
  \E f \in 1..Len(tasks.frames) :
    /\ tasks.frames[f].request = "inflight"
    /\ call.dns[tasks.frames[f].domain].fetch = "response"
    /\ Ran([tasks EXCEPT !.frames[f].request = "responded",
                         !.frames[f].requestTimer = clearTimeout(@)])

\* fetch rejects by itself: resolveTxt throws
AsyncFetchRejects ==
  \E f \in 1..Len(tasks.frames) :
    /\ tasks.frames[f].request = "inflight"
    /\ call.dns[tasks.frames[f].domain].fetch = "reject"
    /\ Ran(txtAwaited([tasks EXCEPT !.frames[f].request = "rejected",
                                    !.frames[f].requestTimer = clearTimeout(@)],
                      f,
                      resolveTxt(tasks.frames[f].domain,
                                 call.dns[tasks.frames[f].domain])))

\* the timer of fetchWithTimeout fires: the request is aborted and resolveTxt
\* throws the timed-out error
AsyncRequestTimerFires ==
  \E f \in 1..Len(tasks.frames) :
    /\ tasks.frames[f].requestTimer # None
    /\ tasks.clock >= tasks.frames[f].requestTimer[1]
    /\ Ran(txtAwaited([tasks EXCEPT !.frames[f].request = "aborted",
                                    !.frames[f].requestTimer = None],
                      f,
                      resolveTxt(tasks.frames[f].domain,
                                 [call.dns[tasks.frames[f].domain]
                                    EXCEPT !.fetch = "abort"])))

\* the body of a response is read and the frame's async function runs on to
\* its next await or to its end
AsyncBodyRead ==
  \E f \in 1..Len(tasks.frames) :
    /\ tasks.frames[f].request = "responded"
    /\ Ran(txtAwaited([tasks EXCEPT !.frames[f].request = "done"], f,
                      resolveTxt(tasks.frames[f].domain,
                                 call.dns[tasks.frames[f].domain])))

\* the timer of withTimeout fires: the race rejects and the catch block
\* returns the timeout failure; the async function is left as it is
AsyncDeadline ==
  \E f \in 1..Len(tasks.frames) :
    /\ tasks.frames[f].timer # None
    /\ tasks.clock >= tasks.frames[f].timer[1]
    /\ Ran(settle([tasks EXCEPT !.frames[f].timer = None], f,
                  failure(MsgSpfTimeout(tasks.frames[f].domain))))

\* the next time a timer is due, at most a tick away
NextTime(t) ==
  LET due == {t.frames[f].timer[1] :
                f \in {g \in 1..Len(t.frames) : t.frames[g].timer # None}}
               \cup {t.frames[f].requestTimer[1] :
                       f \in {g \in 1..Len(t.frames) :
                                t.frames[g].requestTimer # None}}
               \cup {t.clock + AsyncTickMs}
  IN  CHOOSE n \in due : \A m \in due : n <= m

AsyncTick ==
  /\ pc \in {"running", "returned"}
  /\ tasks.frames # <<>>
  /\ tasks.clock < MaxAsyncClock
  /\ NoTimerDue(tasks, tasks.clock)
  /\ \E f \in 1..Len(tasks.frames) :
       tasks.frames[f].request \in {"inflight", "responded"}
  /\ tasks' = [tasks EXCEPT !.clock = NextTime(tasks)]
  /\ UNCHANGED <<pc, call, outcome, queried, net>>

\* the caller takes the result and the run is over
AsyncDone ==
  /\ pc = "returned"
  /\ tasks.frames # <<>>
  /\ pc' = "idle"
  /\ call' = NoCall
  /\ outcome' = Return(<<>>)
  /\ queried' = <<>>
  /\ tasks' = TasksIdle
  /\ UNCHANGED net

NextAsync ==
  \/ AsyncCall
  \/ AsyncFetchResolves
  \/ AsyncFetchRejects
  \/ AsyncRequestTimerFires
  \/ AsyncBodyRead
  \/ AsyncDeadline
  \/ AsyncTick
  \/ AsyncDone

SpecAsync == Init /\ [][NextAsync]_vars

\* a timer of withTimeout is due: AsyncDeadline is enabled
DeadlineDue ==
  \E f \in 1..Len(tasks.frames) :
    tasks.frames[f].timer # None /\ tasks.clock >= tasks.frames[f].timer[1]

\* a timer of fetchWithTimeout is due: AsyncRequestTimerFires is enabled
RequestTimerDue ==
  \E f \in 1..Len(tasks.frames) :
    /\ tasks.frames[f].requestTimer # None
    /\ tasks.clock >= tasks.frames[f].requestTimer[1]

\* SpecAsync on an event loop that keeps running: time passes, and a timer
\* that is due runs its callback.  Nothing is assumed of the transport: a
\* response or its body may never come.  The second and third conditions are
\* WF_vars(AsyncDeadline) and WF_vars(AsyncRequestTimerFires) with ENABLED
\* written out: each of the two actions is enabled exactly when a timer of
\* its kind is due, and its step clears that timer, so it changes vars.
SpecAsyncLive ==
  /\ SpecAsync
  /\ WF_vars(AsyncTick)
  /\ ([]<>~DeadlineDue \/ []<><<AsyncDeadline>>_vars)
  /\ ([]<>~RequestTimerDue \/ []<><<AsyncRequestTimerFires>>_vars)

(***************************************************************************)
(* Properties of validateSPF                                                *)
(***************************************************************************)
\* a call of validateSPF has returned: its result is outcome.value
SpfReturned == pc = "returned" /\ call.fn = "validateSPF"

\* a call of validateSPF whose evaluation ran to its end
SpfEvaluated == SpfReturned /\ ~(call.expired /\ queried # <<>>)

\* a top-level evaluation: depth 0, nothing visited, count 0
TopLevel ==
  /\ SpfEvaluated
  /\ ~call.expired
  /\ call.depth = 0
  /\ call.parentDomains = <<>>
  /\ call.includeCount = 0

\* the nodes of a result tree, each with the chain of domains from the root
RECURSIVE Walk(_, _)
Walk(result, chain) ==
  {[chain |-> chain, node |-> result]}
    \cup UNION { Walk(result.includes[i].result,
                      Append(chain, result.includes[i].domain)) :
                   i \in 1..Len(result.includes) }
    \cup UNION { Walk(result.redirects[i].result,
                      Append(chain, result.redirects[i].domain)) :
                   i \in 1..Len(result.redirects) }

\* the number of include and redirect targets recursed into, over a tree
RECURSIVE Recursed(_)
RECURSIVE RecursedIn(_)
RecursedIn(children) ==
  IF children = <<>> THEN 0
  ELSE 1 + Recursed(Head(children).result) + RecursedIn(Tail(children))
Recursed(result) == RecursedIn(result.includes) + RecursedIn(result.redirects)

\* a domain occurs twice in a sequence of queries
QueriedTwice(queries) ==
  \E i, j \in 1..Len(queries) : i < j /\ queries[i] = queries[j]

\* the call meets one of the four conditions of an immediate failure
FailsAtOnce ==
  \/ call.depth > 5
  \/ call.includeCount > 10
  \/ cleanDomain(call.domain) = None
  \/ /\ cleanDomain(call.domain) # None
     /\ \E i \in 1..Len(call.parentDomains) :
          call.parentDomains[i] = cleanDomain(call.domain)[1]

\* C1: a call with depth > 5, a domain already visited, includeCount > 10 or
\* an invalid domain returns a result with isValid = false, without children,
\* and issues no TXT query.
C1_ImmediateFailure ==
  (SpfReturned /\ FailsAtOnce) =>
    /\ ~outcome.threw
    /\ ~outcome.value.isValid
    /\ outcome.value.errors # <<>>
    /\ outcome.value.includes = <<>>
    /\ outcome.value.redirects = <<>>
    /\ queried = <<>>

\* a call at depth 6 for a valid domain that was not visited has returned
C1_Witness ==
  /\ SpfReturned
  /\ call.depth = 6
  /\ call.includeCount = 0
  /\ call.domain = EXAMPLE_COM
  /\ call.parentDomains = <<SPF_A_NET>>
  /\ outcome.value.errors = <<MsgMaxDepth>>
  /\ queried = <<>>

\* C2: in a top-level evaluation the number of include and redirect targets
\* recursed into, over the whole result tree, never exceeds 10.
C2_GlobalBudget ==
  TopLevel => Recursed(outcome.value) <= 10

\* C3: in a top-level evaluation, a node reached through a chain of includes
\* and redirects that comes back to a domain of the chain is a failure with
\* the circular-reference error naming the chain in visit order; it is the
\* second visit of that domain, at a depth within the limit, the evaluation
\* fails, and no node fails for the depth limit.
C3_CycleReported ==
  TopLevel /\ cleanDomain(call.domain) # None =>
    \A p \in Walk(outcome.value, <<cleanDomain(call.domain)[1]>>) :
      /\ MsgMaxDepth \notin Range(p.node.errors)
      /\ (\E k \in 1..(Len(p.chain) - 1) : p.chain[k] = p.chain[Len(p.chain)]) =>
           /\ Len(p.node.errors) = 1
           /\ "chain" \in DOMAIN p.node.errors[1]
           /\ p.node.errors[1].chain = p.chain
           /\ \A j, k \in 1..(Len(p.chain) - 1) : j # k => p.chain[j] # p.chain[k]
           /\ Len(p.chain) - 1 <= 5
           /\ p.node.includes = <<>> /\ p.node.redirects = <<>>
           /\ ~p.node.isValid
           /\ ~outcome.value.isValid

\* A includes B and B includes A: the chain A -> B -> A is reported, and A
\* and B were queried once each
C3_Witness ==
  /\ TopLevel
  /\ queried = <<EXAMPLE_COM, SPF_A_NET>>
  /\ \E p \in Walk(outcome.value, <<EXAMPLE_COM>>) :
       /\ p.chain = <<EXAMPLE_COM, SPF_A_NET, EXAMPLE_COM>>
       /\ Len(p.node.errors) = 1
       /\ "chain" \in DOMAIN p.node.errors[1]
       /\ p.node.errors[1].chain = p.chain
  /\ outcome.value.includes # <<>>

\* the effective 'all' the claim gives a node with a parsed record
EffectiveAll(node) ==
  IF node.redirects # <<>> /\ node.redirects[1].result.isValid
    THEN node.redirects[1].result.allMechanisms
    ELSE LET own == parseSPFRecord(node.record[1])[1].mechanisms.all
         IN  IF own = None THEN <<>> ELSE <<own[1]>>

RedirectExample ==
  /\ TopLevel
  /\ call.domain = EXAMPLE_COM
  /\ call.dns[EXAMPLE_COM] = TxtAnswers(<<SpfText(<<RedirectTerm(USPF_EXAMPLE_NET)>>)>>)
  /\ call.dns[USPF_EXAMPLE_NET] = TxtAnswers(<<SpfText(<<IP4_TERM, AllTerm("-")>>)>>)

IncludeExample ==
  /\ TopLevel
  /\ call.domain = EXAMPLE_COM
  /\ call.dns[EXAMPLE_COM] =
       TxtAnswers(<<SpfText(<<IncludeTerm(USPF_EXAMPLE_NET), AllTerm("-")>>)>>)
  /\ call.dns[USPF_EXAMPLE_NET] = TxtAnswers(<<SpfText(<<IP4_TERM, AllTerm("~")>>)>>)

\* C5: for `v=spf1 redirect=_spf.example.net` with the target publishing
\* `v=spf1 ip4:5.6.7.8 -all`, the target is resolved and the parent's
\* allMechanisms is ["-all"].
C5_RedirectExample ==
  RedirectExample =>
    /\ queried = <<EXAMPLE_COM, USPF_EXAMPLE_NET>>
    /\ Len(outcome.value.redirects) = 1
    /\ outcome.value.allMechanisms = <<AllTerm("-")>>

\* C6: for `v=spf1 include:_spf.example.net -all` with the target publishing
\* `v=spf1 ip4:5.6.7.8 ~all`, the parent is valid and each domain of the chain
\* is queried exactly once.
C6_IncludeExample ==
  IncludeExample =>
    /\ outcome.value.isValid
    /\ queried = <<EXAMPLE_COM, USPF_EXAMPLE_NET>>

(***************************************************************************)
(* Properties of the three validators                                       *)
(***************************************************************************)
\* the hostname of the first TXT query of the call that returned
FirstHostname ==
  IF call.fn = "validateSPF" THEN cleanDomain(call.domain)[1]
  ELSE IF call.fn = "validateDKIM" THEN call.selector \o DKIM_LABEL \o call.domain
  ELSE DMARC_LABEL \o call.domain

\* the call got as far as that query
Resolved ==
  IF call.fn = "validateSPF"
    THEN ~FailsAtOnce
  ELSE IF call.fn = "validateDKIM"
    THEN isValidSelector(call.selector) /\ dkimIsValidDomain(call.domain)
  ELSE TRUE

FirstTransport ==
  IF call.fn = "validateSPF" THEN call.dns[FirstHostname] ELSE call.transport

\* the resolver failed on that query
ResolverFailed == Resolved /\ resolveTxt(FirstHostname, FirstTransport).threw

\* the result has its validity flag false and an error that says something
ReportsFailure ==
  IF call.fn = "validateSPF"
    THEN /\ ~outcome.value.isValid
         /\ outcome.value.errors # <<>>
         /\ \/ outcome.value.errors = <<MsgSpfTimeout(FirstHostname)>>
            \/ /\ "message" \in DOMAIN outcome.value.errors[1]
               /\ outcome.value.errors[1].message # <<>>
               /\ outcome.value.errors[1].message
                    = resolveTxt(FirstHostname, FirstTransport).error.message
  ELSE IF call.fn = "validateDKIM"
    THEN /\ ~outcome.value.valid
         /\ outcome.value.error # None
         /\ outcome.value.error[1] # <<>>
  ELSE /\ ~outcome.value.valid
       /\ outcome.value.error # None
       /\ outcome.value.error[1].message # <<>>

\* C7: validateSPF, validateDKIM and validateDMARC never throw; when the
\* resolver fails, whatever the failure, the result's validity flag is false
\* and its error field describes the failure.
C7_NeverThrows ==
  pc = "returned" =>
    /\ ~outcome.threw
    /\ ResolverFailed => ReportsFailure

\* each validator has returned from a failure of the resolver
C7_Witness ==
  /\ pc = "returned"
  /\ call.fn = "validateDMARC"
  /\ ResolverFailed
  /\ call.transport = FetchReject(ThrownOther)
  /\ ReportsFailure

(***************************************************************************)
(* Properties of the resolver                                               *)
(***************************************************************************)
ResolverReturned == pc = "returned" /\ call.fn \in ResolverFns

\* the query failed: invalid name, timeout, rejected request, non-success
\* transport status, malformed response, or a DNS status other than 0
QueryFailed ==
  /\ ResolverReturned
  /\ \/ call.hostname = <<>>
     \/ Len(call.hostname) > 253
     \/ net.request \in {"aborted", "rejected"}
     \/ ~call.transport.ok
     \/ call.transport.json # "object"
     \/ call.transport.Status # Some(0)

\* C8: on every failure of a query resolveMx and resolveCname return an empty
\* sequence, and they never raise; resolveA, resolveAAAA and resolveTxt raise
\* an error for each of those failures.
C8_SwallowOrPropagate ==
  /\ ResolverReturned /\ call.fn \in {"resolveMx", "resolveCname"} =>
       /\ ~outcome.threw
       /\ QueryFailed => outcome = Return(<<>>)
  /\ QueryFailed /\ call.fn \in {"resolveA", "resolveAAAA", "resolveTxt"} =>
       /\ outcome.threw
       /\ outcome.error.name = "Error"
       /\ outcome.error.message # <<>>

\* resolveMx has returned [] from a query the timer aborted
C8_Witness ==
  /\ QueryFailed
  /\ call.fn = "resolveMx"
  /\ net.request = "aborted"
  /\ outcome = Return(<<>>)

RECURSIVE InSubtree(_, _)
InSubtree(g, f) ==
  \/ g = f
  \/ g # 0 /\ tasks.frames[g].parent # 0 /\ InSubtree(tasks.frames[g].parent, f)

\* the deadline of frame f expired: it returned the timeout failure
DeadlineExpired(f) ==
  tasks.frames[f].result = Some(failure(MsgSpfTimeout(tasks.frames[f].domain)))

\* C10: once the deadline of a node has expired and the node has returned the
\* timeout failure, no query of the node's subtree is in flight and none was
\* started after that moment.
C10_DeadlineAborts ==
  \A f \in 1..Len(tasks.frames) :
    DeadlineExpired(f) =>
      \A g \in 1..Len(tasks.frames) :
        InSubtree(g, f) =>
          /\ tasks.frames[g].request \notin {"inflight", "responded"}
          /\ g <= tasks.frames[f].settledWith

(***************************************************************************)
(* Properties of validateDKIM and validateDMARC                             *)
(***************************************************************************)
\* a call of validateDKIM or validateDMARC that queried the resolver returned
LookupReturned ==
  pc = "returned" /\ call.fn \in {"validateDKIM", "validateDMARC"} /\ Resolved

\* the DNS response carried the protocol status 3
DnsNameNotFound ==
  /\ call.transport.fetch = "response"
  /\ call.transport.ok
  /\ call.transport.json = "object"
  /\ call.transport.Status = Some(3)

\* the result carries the 'no record found (NXDOMAIN)' error
ReportsNxdomain ==
  IF call.fn = "validateDKIM"
    THEN outcome.value.error = Some(ERR_NO_DKIM_NXDOMAIN)
    ELSE outcome.value.error = Some(Error(ERR_NO_DMARC_NXDOMAIN))

\* C11: validateDKIM and validateDMARC report the NXDOMAIN outcome if and
\* only if the DNS response carried protocol status 3; another DNS status, an
\* HTTP error of any code and a timeout are reported as a different error.
C11_NxdomainIffStatus3 ==
  LookupReturned => (ReportsNxdomain <=> DnsNameNotFound)

\* the policy values parseDMARCRecord accepts, as the claim lists them
AllowedPolicies == {POLICY_NONE, POLICY_QUARANTINE, POLICY_REJECT}

\* validateDMARC returned for a lookup that found the record built from tags
DmarcFound(tags) ==
  /\ pc = "returned" /\ call.fn = "validateDMARC"
  /\ ~ResolverFailed
  /\ call.transport = TxtAnswers(<<DmarcText(tags)>>)

\* what the claim says of a found record, by the value of its p tag
DmarcJudged(tags) ==
  LET ps == {i \in 1..Len(tags) : tags[i].key = <<"p">>}
  IN  /\ outcome.value.valid <=> \E i \in ps : tags[i].value \in AllowedPolicies
      /\ outcome.value.valid =>
           \E i \in ps : outcome.value.policy = Some(tags[i].value)
      /\ ps = {} =>
           /\ ~outcome.value.valid
           /\ outcome.value.error = Some(Error(ERR_MISSING_POLICY))
      /\ \A i \in ps :
           tags[i].value \notin AllowedPolicies /\ tags[i].value # <<>> =>
             /\ ~outcome.value.valid
             /\ outcome.value.error = Some(Error(ERR_INVALID_POLICY \o tags[i].value))

\* C12: validateDMARC is valid exactly when the found record has a p tag with
\* one of none, quarantine, reject, and policy is that value; without a p tag
\* the error is 'Missing required policy', with another p value 'Invalid
\* policy value'; a valid result always has one of the three policies.
C12_PolicyDecides ==
  /\ \A tags \in DmarcTagLists : DmarcFound(tags) => DmarcJudged(tags)
  /\ pc = "returned" /\ call.fn = "validateDMARC" /\ outcome.value.valid =>
       /\ outcome.value.policy # None
       /\ outcome.value.policy[1] \in AllowedPolicies

\* a record with sp=reject and p=quarantine was found valid with the policy
\* quarantine
C12_Witness ==
  /\ DmarcFound(<<[key |-> <<"s","p">>, value |-> POLICY_REJECT],
                  [key |-> <<"p">>, value |-> POLICY_QUARANTINE]>>)
  /\ outcome.value.valid
  /\ outcome.value.policy = Some(POLICY_QUARANTINE)

(***************************************************************************)
(* scoring.ts: calculateScore.  The function keeps its running values in    *)
(* locals (spfScore, dkimScore, dmarcScore, bonusScore) and in three maps   *)
(* (details, reasons, recommendations); st is that state, and each part of  *)
(* the function takes it from the part before.                              *)
(***************************************************************************)
\* JavaScript truthiness of an optional text: undefined and '' are falsy
truthy(text) == text # None /\ text[1] # <<>>

\* map[key] = value
put(map, key, value) ==
  [k \in DOMAIN map \cup {key} |-> IF k = key THEN value ELSE map[k]]

\* details[key] || 0
detail(details, key) == IF key \in DOMAIN details THEN details[key] ELSE 0

\* details[key] = points
setDetail(st, key, points) == [st EXCEPT !.details = put(@, key, points)]

\* reasons[category] = reason; recommendations[category] = recommendation
setReason(st, category, reason, recommendation) ==
  [st EXCEPT !.reasons = put(@, category, reason),
             !.recommendations = put(@, category, recommendation)]

\* the locals and maps at the start of calculateScore
ScoreStart ==
  [spfScore |-> 0, dkimScore |-> 0, dmarcScore |-> 0, bonusScore |-> 0,
   details |-> <<>>, reasons |-> <<>>, recommendations |-> <<>>]

V_SPF1 == <<"v","=","s","p","f","1">>

V_DMARC1 == <<"v","=","D","M","A","R","C","1">>

\* spfValid, without the test of result.spf.valid
spfHasRecord(spf) ==
  /\ spf # None
  /\ spf[1].record # None
  /\ includes(spf[1].record[1], V_SPF1)

\* result.spf && result.spf.valid && typeof record === 'string'
\*   && record.includes('v=spf1')
spfValid(spf) ==
  /\ spf # None
  /\ spf[1].valid
  /\ spf[1].record # None
  /\ includes(spf[1].record[1], V_SPF1)

\* !spf.error && (!details || !details.errors || details.errors.length === 0)
spfSyntaxClean(spf) ==
  /\ ~truthy(spf.error)
  /\ (spf.details = None \/ Len(spf.details[1].errors) = 0)

\* Proper SPF Syntax
scoreSpfSyntax(st, spf) ==
  IF spfSyntaxClean(spf)
    THEN setDetail([st EXCEPT !.spfScore = @ + 5], "spf_syntax", 5)
    ELSE setReason(setDetail(st, "spf_syntax", 0), "spf",
                   "SPF record has syntax errors.",
                   "Fix SPF syntax errors to ensure proper evaluation.")

\* /[-~?+]all/.test(m)
isAllMechanism(m) ==
  \E q \in {"-", "~", "?", "+"} : includes(m, <<q, "a", "l", "l">>)

\* allMechanisms.find(m => /[-~?+]all/.test(m)) || ''
RECURSIVE findAllMechanism(_)
findAllMechanism(allMechanisms) ==
  IF allMechanisms = <<>> THEN <<>>
  ELSE IF isAllMechanism(Head(allMechanisms)) THEN Head(allMechanisms)
  ELSE findAllMechanism(Tail(allMechanisms))

\* let allMech = ''; if (details && details.allMechanisms) allMech = ...
allMechOf(spf) ==
  IF spf.details = None THEN <<>>
                        ELSE findAllMechanism(spf.details[1].allMechanisms)

\* Check for all mechanism
scoreSpfAll(st, allMech) ==
  IF startsWith(allMech, <<"-","a","l","l">>)
    THEN setReason(setDetail([st EXCEPT !.spfScore = @ + 10], "spf_all", 10),
                   "spf", "SPF uses strict \"-all\" policy.",
                   "No change needed. This is optimal.")
  ELSE IF startsWith(allMech, <<"~","a","l","l">>)
    THEN setReason(setDetail([st EXCEPT !.spfScore = @ + 8], "spf_all", 8),
                   "spf", "SPF uses softfail \"~all\" policy.",
                   "Consider switching to strict \"-all\" for maximum protection.")
  ELSE IF startsWith(allMech, <<"+","a","l","l">>)
    THEN setReason(
           setDetail(setDetail([st EXCEPT !.spfScore = @ - 5], "spf_all", 0),
                     "spf_no_plusall", 0),
           "spf", "SPF uses permissive \"+all\" which is insecure.",
           "Remove or replace \"+all\" with \"-all\" or \"~all\" to prevent spoofing.")
  ELSE setReason(setDetail(st, "spf_all", 0), "spf",
                 "SPF record does not specify an \"all\" mechanism.",
                 "Add an \"all\" mechanism (preferably \"-all\") to define policy for all mail sources.")

\* No "+all" (bonus if not present)
scoreSpfNoPlusAll(st, allMech) ==
  IF allMech # <<>> /\ ~startsWith(allMech, <<"+","a","l","l">>)
    THEN setDetail([st EXCEPT !.spfScore = @ + 5], "spf_no_plusall", 5)
    ELSE st

\* If not already set above, set generic reason/recommendation
genericReason(st, category, reason, recommendation) ==
  IF category \in DOMAIN st.reasons /\ st.reasons[category] # ""
    THEN st
    ELSE setReason(st, category, reason, recommendation)

\* the category is missing or invalid: its details are 0
scoreMissing(st, keys, category, reason, recommendation) ==
  setReason([st EXCEPT !.details = [k \in DOMAIN @ \cup keys |->
                                     IF k \in keys THEN 0 ELSE @[k]]],
            category, reason, recommendation)

\* ----- SPF (max 30) -----
scoreSpf(st, spf) ==
  IF spfValid(spf)
    THEN genericReason(
           scoreSpfNoPlusAll(
             scoreSpfAll(
               scoreSpfSyntax(
                 setDetail([st EXCEPT !.spfScore = @ + 10], "spf_exists", 10),
                 spf[1]),
               allMechOf(spf[1])),
             allMechOf(spf[1])),
           "spf", "SPF record is present and valid.",
           "No change needed. This is optimal.")
    ELSE scoreMissing([st EXCEPT !.spfScore = 0],
           {"spf_exists", "spf_syntax", "spf_all", "spf_no_plusall"}, "spf",
           "SPF record is missing or invalid.",
           "Add a valid SPF record with proper syntax and a strict \"-all\" policy.")

\* [A-Za-z0-9+/=]
Base64Chars == AlnumChars \cup {"+", "/", "="}

\* where the capture group of /prefix([class]+)/ starts in s: 0 for no match
matchStart(s, prefix, class) ==
  IF \E i \in 1..(Len(s) - Len(prefix)) :
       SubSeq(s, i, i + Len(prefix) - 1) = prefix /\ s[i + Len(prefix)] \in class
    THEN Len(prefix)
           + (CHOOSE i \in 1..(Len(s) - Len(prefix)) :
                /\ SubSeq(s, i, i + Len(prefix) - 1) = prefix
                /\ s[i + Len(prefix)] \in class
                /\ \A j \in 1..(i - 1) :
                     ~(SubSeq(s, j, j + Len(prefix) - 1) = prefix
                       /\ s[j + Len(prefix)] \in class))
    ELSE 0

\* the characters of class from the index start on: a greedy [class]+
runFrom(s, start, class) ==
  SubSeq(s, start,
         (CHOOSE e \in start..(Len(s) + 1) :
            /\ (e = Len(s) + 1 \/ s[e] \notin class)
            /\ \A j \in start..(e - 1) : s[j] \in class) - 1)

\* s.match(/prefix([class]+)/): the capture group, None for no match
capture(s, prefix, class) ==
  IF matchStart(s, prefix, class) = 0
    THEN None
    ELSE Some(runFrom(s, matchStart(s, prefix, class), class))

\* fallback: check length of base64 key (len = length * 6 / 8)
estimatedBits(key) ==
  IF Len(key) * 6 > 256 * 8 THEN 2048
  ELSE IF Len(key) * 6 > 128 * 8 THEN 1024
  ELSE 512

\* the bits of one valid selector
selectorBits(record) ==
  IF capture(record, <<"b","i","t","s","=">>, Range(DigitChars)) # None
    THEN parseInt(capture(record, <<"b","i","t","s","=">>, Range(DigitChars))[1])[1]
  ELSE IF capture(record, <<"p","=">>, Base64Chars) # None
    THEN estimatedBits(capture(record, <<"p","=">>, Base64Chars)[1])
  ELSE 0

\* sel.valid && sel.record
selectorCounts(sel) == sel.valid /\ truthy(sel.record)

\* for (const sel of result.dkim.selectors): maxKeyLen
RECURSIVE maxKeyLen(_, _)
maxKeyLen(selectors, max) ==
  IF selectors = <<>> THEN max
  ELSE IF selectorCounts(Head(selectors))
            /\ selectorBits(Head(selectors).record[1]) > max
    THEN maxKeyLen(Tail(selectors), selectorBits(Head(selectors).record[1]))
  ELSE maxKeyLen(Tail(selectors), max)

\* for (const sel of result.dkim.selectors): validSelectorCount
RECURSIVE validSelectorCount(_)
validSelectorCount(selectors) ==
  IF selectors = <<>> THEN 0
  ELSE (IF selectorCounts(Head(selectors)) THEN 1 ELSE 0)
         + validSelectorCount(Tail(selectors))

\* result.dkim && Array.isArray(selectors) && selectors.length > 0
\*   && selectors.some(sel => sel.valid && sel.record)
dkimValid(dkim) ==
  /\ dkim # None
  /\ Len(dkim[1].selectors) > 0
  /\ \E i \in 1..Len(dkim[1].selectors) : selectorCounts(dkim[1].selectors[i])

\* Key strength
scoreDkimKey(st, keyLen) ==
  IF keyLen >= 1024
    THEN setReason(
           setDetail([st EXCEPT !.dkimScore = @ + 10], "dkim_key_strength", 10),
           "dkim", "DKIM key strength is adequate (>=1024 bits).",
           "No change needed. This is industry standard.")
    ELSE setReason(setDetail(st, "dkim_key_strength", 0), "dkim",
                   "DKIM key strength is weak (<1024 bits).",
                   "Upgrade DKIM keys to at least 1024 bits for security.")

\* Bonus for multiple selectors
scoreDkimBonus(st, selectors) ==
  IF Len(selectors) > 1
    THEN setReason(
           setDetail([st EXCEPT !.bonusScore = @ + 5],
                     "dkim_multiple_selectors_bonus", 5),
           "dkim", "Multiple DKIM selectors detected (key rotation enabled).",
           "No change needed. Key rotation is a best practice.")
    ELSE st

\* ----- DKIM (max 30 + 5 bonus) -----
scoreDkim(st, dkim) ==
  IF dkimValid(dkim)
    THEN genericReason(
           scoreDkimBonus(
             scoreDkimKey(
               setDetail([st EXCEPT !.dkimScore = @ + 15], "dkim_exists", 15),
               maxKeyLen(dkim[1].selectors, 0)),
             dkim[1].selectors),
           "dkim", "DKIM record is present and valid.",
           "No change needed. This is optimal.")
    ELSE scoreMissing([st EXCEPT !.dkimScore = 0],
           {"dkim_exists", "dkim_key_strength", "dkim_multiple_selectors_bonus"},
           "dkim", "DKIM record is missing or invalid.",
           "Add a valid DKIM record with at least 1024-bit key and enable key rotation if possible.")

\* result.dmarc && result.dmarc.valid && typeof record === 'string'
\*   && record.includes('v=DMARC1')
dmarcValid(dmarc) ==
  /\ dmarc # None
  /\ dmarc[1].valid
  /\ dmarc[1].record # None
  /\ includes(dmarc[1].record[1], V_DMARC1)

\* result.dmarc.policy === ...
scoreDmarcPolicy(st, policy) ==
  IF policy = Some(POLICY_REJECT)
    THEN setReason(
           setDetail([st EXCEPT !.dmarcScore = @ + 20], "dmarc_policy", 20),
           "dmarc", "DMARC policy is set to \"reject\" (full enforcement).",
           "No change needed. This is optimal.")
  ELSE IF policy = Some(POLICY_QUARANTINE)
    THEN setReason(
           setDetail([st EXCEPT !.dmarcScore = @ + 15], "dmarc_policy", 15),
           "dmarc", "DMARC policy is set to \"quarantine\" (partial enforcement).",
           "Consider upgrading DMARC policy to \"reject\" for full protection.")
  ELSE IF policy = Some(POLICY_NONE)
    THEN setReason(
           setDetail([st EXCEPT !.dmarcScore = @ + 5], "dmarc_policy", 5),
           "dmarc", "DMARC policy is set to \"none\" (monitoring only).",
           "Increase DMARC policy to \"quarantine\" or \"reject\" to enforce protection.")
  ELSE setReason(setDetail(st, "dmarc_policy", 0), "dmarc",
                 "DMARC policy is not set or unrecognized.",
                 "Set DMARC policy to \"reject\" or \"quarantine\" for enforcement.")

\* /rua=/.test(record): the test without its i flag
hasRuaExact(record) == includes(record, <<"r","u","a","=">>)

\* /rua=/i.test(record)
hasRua(record) == includes(toLowerCase(record), <<"r","u","a","=">>)

\* Bonus for rua reporting
scoreDmarcRua(st, record) ==
  IF hasRua(record)
    THEN setReason(
           setDetail([st EXCEPT !.bonusScore = @ + 5], "dmarc_rua_bonus", 5),
           "dmarc", "DMARC reporting (rua) is enabled.",
           "No change needed. Reporting is recommended.")
    ELSE st

\* ----- DMARC (max 40 + 5 bonus) -----
scoreDmarc(st, dmarc) ==
  IF dmarcValid(dmarc)
    THEN genericReason(
           scoreDmarcRua(
             scoreDmarcPolicy(
               setDetail([st EXCEPT !.dmarcScore = @ + 10], "dmarc_exists", 10),
               dmarc[1].policy),
             dmarc[1].record[1]),
           "dmarc", "DMARC record is present and valid.",
           "No change needed. This is optimal.")
    ELSE scoreMissing([st EXCEPT !.dmarcScore = 0],
           {"dmarc_exists", "dmarc_policy", "dmarc_rua_bonus"}, "dmarc",
           "DMARC record is missing or invalid.",
           "Add a valid DMARC record with policy set to \"reject\" and enable rua reporting.")

\* the three parts of calculateScore, in turn
scored(result) ==
  scoreDmarc(scoreDkim(scoreSpf(ScoreStart, result.spf), result.dkim),
             result.dmarc)

SpfDetailKeys == {"spf_exists", "spf_syntax", "spf_all", "spf_no_plusall"}

DkimDetailKeys ==
  {"dkim_exists", "dkim_key_strength", "dkim_multiple_selectors_bonus"}

DmarcDetailKeys == {"dmarc_exists", "dmarc_policy", "dmarc_rua_bonus"}

\* (details[k1] || 0) + (details[k2] || 0) + ...
RECURSIVE sumOfDetails(_, _)
sumOfDetails(details, keys) ==
  IF keys = {} THEN 0
  ELSE LET k == CHOOSE x \in keys : TRUE
       IN  detail(details, k) + sumOfDetails(details, keys \ {k})

\* the ScoreBreakdown of the locals as the parts left them
breakdownOfLocals(st) ==
  [total |-> st.spfScore + st.dkimScore + st.dmarcScore + st.bonusScore,
   spf |-> st.spfScore, dkim |-> st.dkimScore, dmarc |-> st.dmarcScore,
   details |-> st.details, reasons |-> st.reasons,
   recommendations |-> st.recommendations]

\* Calculate final scores by summing up details; the returned ScoreBreakdown
breakdown(st) ==
  [total |-> sumOfDetails(st.details, SpfDetailKeys)
               + sumOfDetails(st.details, DkimDetailKeys)
               + sumOfDetails(st.details, DmarcDetailKeys),
   spf |-> sumOfDetails(st.details, SpfDetailKeys),
   dkim |-> sumOfDetails(st.details, DkimDetailKeys),
   dmarc |-> sumOfDetails(st.details, DmarcDetailKeys),
   details |-> st.details, reasons |-> st.reasons,
   recommendations |-> st.recommendations]

calculateScore(result) == breakdown(scored(result))

(***************************************************************************)
(* The inputs of calculateScore that are checked.                           *)
(***************************************************************************)
SPF_STRICT_TEXT ==
  <<"v","=","s","p","f","1"," ","i","p","4",":","1",".","2",".","3",".","4",
    " ","-","a","l","l">>

SPF2_TEXT ==
  <<"s","p","f","2",".","0","/","p","r","a"," ","i","p","4",":","1",".","2",
    ".","3",".","4"," ","-","a","l","l">>

SYNTAX_ERROR ==
  <<"S","y","n","t","a","x"," ","e","r","r","o","r">>

INVALID_SYNTAX ==
  <<"I","n","v","a","l","i","d"," ","s","y","n","t","a","x">>

DKIM_SHORT_KEY_TEXT ==
  <<"v","=","D","K","I","M","1",";"," ","k","=","r","s","a",";"," ","p","=",
    "a","b","c","1","2","3",".",".",".">>

DKIM_BITS_2048_TEXT ==
  <<"v","=","D","K","I","M","1",";"," ","b","i","t","s","=","2","0","4","8",
    ";"," ","p","=","a","b","c","1","2","3">>

DKIM_KEY_HEAD ==
  <<"v","=","D","K","I","M","1",";"," ","k","=","r","s","a",";"," ","p","=">>

DMARC_RUA ==
  <<";"," ","r","u","a","=","m","a","i","l","t","o",":","d","@","e","x","a",
    "m","p","l","e",".","c","o","m">>

DMARC_RUA_UPPER ==
  <<";"," ","R","U","A","=","m","a","i","l","t","o",":","d","@","e","x","a",
    "m","p","l","e",".","c","o","m">>

POLICY_BOGUS ==
  <<"b","o","g","u","s">>

\* bounds of the checked inputs: the length of a base64 key that the
\* estimate takes for 1024 bits, and the longest list of selectors
KeyChars == 172
MaxSelectors == 2

\* a record whose p= tag carries KeyChars characters
DKIM_LONG_KEY_TEXT == DKIM_KEY_HEAD \o [i \in 1..KeyChars |-> "A"]

\* the SPF part of an EmailAuthResult
SpfInput(valid, record, error, details) ==
  Some([valid |-> valid, record |-> record, error |-> error,
        details |-> details])

SpfDetailsMenu ==
  {None}
  \cup {Some([allMechanisms |-> a, errors |-> e]) :
          a \in {<<>>, <<<<"-","a","l","l">>>>, <<<<"~","a","l","l">>>>,
                 <<<<"+","a","l","l">>>>, <<<<"?","a","l","l">>>>},
          e \in {<<>>, <<INVALID_SYNTAX>>}}

SpfInputs ==
  {None, SpfInput(FALSE, None, None, None),
   SpfInput(TRUE, None, None, None),
   SpfInput(TRUE, Some(SPF2_TEXT), None, None),
   SpfInput(FALSE, Some(SPF_STRICT_TEXT), Some(SYNTAX_ERROR),
            Some([allMechanisms |-> <<<<"-","a","l","l">>>>,
                  errors |-> <<INVALID_SYNTAX>>]))}
  \cup {SpfInput(TRUE, Some(SPF_STRICT_TEXT), None, d) : d \in SpfDetailsMenu}
  \cup {SpfInput(TRUE, Some(SPF_STRICT_TEXT), Some(SYNTAX_ERROR),
                  Some([allMechanisms |-> a, errors |-> <<INVALID_SYNTAX>>])) :
          a \in {<<>>, <<<<"-","a","l","l">>>>, <<<<"+","a","l","l">>>>}}

\* the results of validateDKIM for the probed selectors
SelectorMenu ==
  {[valid |-> FALSE, record |-> None]}
  \cup {[valid |-> TRUE, record |-> Some(r)] :
          r \in {DKIM_SHORT_KEY_TEXT, DKIM_LONG_KEY_TEXT, DKIM_BITS_2048_TEXT}}

SelectorLists ==
  UNION {[1..n -> SelectorMenu] : n \in 0..MaxSelectors}

\* the DKIM part as its caller builds it: valid is foundValidDKIM
DkimInputs ==
  {None}
  \cup {Some([valid |-> \E i \in 1..Len(l) : l[i].valid, selectors |-> l]) :
          l \in SelectorLists}

DmarcInput(valid, record, policy) ==
  Some([valid |-> valid, record |-> record, policy |-> policy])

DmarcInputs ==
  {None, DmarcInput(FALSE, None, None), DmarcInput(TRUE, None, None),
   DmarcInput(FALSE, Some(DMARC_BOGUS_TEXT), None)}
  \cup {DmarcInput(TRUE, Some(V_DMARC1 \o <<";"," ","p","=">> \o p \o rua),
                   Some(p)) :
          p \in {POLICY_REJECT, POLICY_QUARANTINE, POLICY_NONE, POLICY_BOGUS},
          rua \in {<<>>, DMARC_RUA}}
  \cup {DmarcInput(TRUE, Some(V_DMARC1 \o <<";"," ","p","=">> \o POLICY_REJECT
                                \o DMARC_RUA_UPPER),
                   Some(POLICY_REJECT))}
  \cup {DmarcInput(TRUE, Some(V_DMARC1 \o rua), None) :
          rua \in {<<>>, DMARC_RUA}}

(***************************************************************************)
(* Specification SpecScore: calls of calculateScore.                        *)
(***************************************************************************)
CallCalculateScore ==
  \E spf \in SpfInputs, dkim \in DkimInputs, dmarc \in DmarcInputs :
    /\ pc = "idle"
    /\ pc' = "returned"
    /\ call' = [fn |-> "calculateScore",
                result |-> [spf |-> spf, dkim |-> dkim, dmarc |-> dmarc]]
    /\ outcome' = Return(calculateScore([spf |-> spf, dkim |-> dkim,
                                         dmarc |-> dmarc]))
    /\ UNCHANGED <<queried, net, tasks>>

\* the caller takes the score
ScoreDone ==
  /\ pc = "returned"
  /\ pc' = "idle"
  /\ call' = NoCall
  /\ outcome' = Return(<<>>)
  /\ UNCHANGED <<queried, net, tasks>>

NextScore ==
  \/ CallCalculateScore
  \/ ScoreDone

SpecScore == Init /\ [][NextScore]_vars

(***************************************************************************)
(* Properties of calculateScore (specification SpecScore).                  *)
(***************************************************************************)
ScoreReturned == pc = "returned" /\ call.fn = "calculateScore"

\* the all mechanism the SPF part of the scored input names ('' for none)
InputAllMech ==
  IF call.result.spf = None THEN <<>> ELSE allMechOf(call.result.spf[1])

\* C13: for every input of calculateScore, total = spf + dkim + dmarc, and
\* each category score is the sum of the category's named entries of the
\* returned details map (an entry that was never written counts 0)
C13_TotalIsSumOfDetails ==
  ScoreReturned =>
    /\ ~outcome.threw
    /\ outcome.value.total
         = outcome.value.spf + outcome.value.dkim + outcome.value.dmarc
    /\ outcome.value.spf
         = detail(outcome.value.details, "spf_exists")
             + detail(outcome.value.details, "spf_syntax")
             + detail(outcome.value.details, "spf_all")
             + detail(outcome.value.details, "spf_no_plusall")
    /\ outcome.value.dkim
         = detail(outcome.value.details, "dkim_exists")
             + detail(outcome.value.details, "dkim_key_strength")
             + detail(outcome.value.details, "dkim_multiple_selectors_bonus")
    /\ outcome.value.dmarc
         = detail(outcome.value.details, "dmarc_exists")
             + detail(outcome.value.details, "dmarc_policy")
             + detail(outcome.value.details, "dmarc_rua_bonus")

\* a score whose running values differ from the sums of the details: "+all"
\* took 5 points off spfScore, and both bonuses went to bonusScore
C13_Witness ==
  /\ ScoreReturned
  /\ startsWith(InputAllMech, <<"+","a","l","l">>)
  /\ detail(outcome.value.details, "spf_exists") = 10
  /\ detail(outcome.value.details, "dkim_multiple_selectors_bonus") = 5
  /\ detail(outcome.value.details, "dmarc_rua_bonus") = 5
  /\ outcome.value.total
       = outcome.value.spf + outcome.value.dkim + outcome.value.dmarc

\* the category is missing from the scored input, or its valid flag is false
CategoryInvalid(part) == part = None \/ ~part[1].valid

StrongDkimRecords == {DKIM_LONG_KEY_TEXT, DKIM_BITS_2048_TEXT}

\* SPF valid with -all and no errors
SpfOptimal ==
  /\ ~CategoryInvalid(call.result.spf)
  /\ call.result.spf[1].record = Some(SPF_STRICT_TEXT)
  /\ call.result.spf[1].error = None
  /\ call.result.spf[1].details # None
  /\ call.result.spf[1].details[1].errors = <<>>
  /\ call.result.spf[1].details[1].allMechanisms = <<<<"-","a","l","l">>>>

\* one DKIM selector, valid, with the given record
OneSelector(record) ==
  /\ call.result.dkim # None
  /\ call.result.dkim[1].selectors = <<[valid |-> TRUE, record |-> Some(record)]>>

\* DMARC valid with p=reject; rua: the record has a rua tag
DmarcReject(rua) ==
  /\ ~CategoryInvalid(call.result.dmarc)
  /\ call.result.dmarc[1].policy = Some(POLICY_REJECT)
  /\ call.result.dmarc[1].record # None
  /\ includes(call.result.dmarc[1].record[1], V_DMARC1)
  /\ rua <=> includes(toLowerCase(call.result.dmarc[1].record[1]),
                      <<"r","u","a","=">>)

\* all-optimal inputs: SPF -all, a valid DKIM selector with a key of at least
\* 1024 bits, DMARC p=reject with a rua tag
AllOptimal ==
  /\ ScoreReturned
  /\ SpfOptimal
  /\ \E r \in StrongDkimRecords : OneSelector(r)
  /\ DmarcReject(TRUE)

SpfPlusAll ==
  /\ ScoreReturned
  /\ ~CategoryInvalid(call.result.spf)
  /\ call.result.spf[1].record = Some(SPF_STRICT_TEXT)
  /\ call.result.spf[1].error = None
  /\ call.result.spf[1].details # None
  /\ call.result.spf[1].details[1].errors = <<>>
  /\ call.result.spf[1].details[1].allMechanisms = <<<<"+","a","l","l">>>>

\* C16: when the SPF input is valid, has no errors and its all qualifier is
\* +all, the SPF score is 10: the penalty leaves the existence points only
C16_PlusAllScoresTen == SpfPlusAll => outcome.value.spf = 10

\* C17: the 5-point bonus for multiple selectors is given if and only if at
\* least two selectors of the DKIM input are valid (each with a record);
\* selectors probed and found invalid do not count
C17_BonusIffTwoValid ==
  (ScoreReturned /\ call.result.dkim # None) =>
    (detail(outcome.value.details, "dkim_multiple_selectors_bonus") = 5
       <=> validSelectorCount(call.result.dkim[1].selectors) >= 2)

ScoreCategories == {"spf", "dkim", "dmarc"}

\* the recommendations that ask for nothing
NoChangeNeeded ==
  {"No change needed. This is optimal.",
   "No change needed. This is industry standard.",
   "No change needed. Key rotation is a best practice.",
   "No change needed. Reporting is recommended."}

\* the reasons that name a condition which cost the category points
NonOptimalReasons ==
  [spf |-> {"SPF record has syntax errors.",
            "SPF uses softfail \"~all\" policy.",
            "SPF uses permissive \"+all\" which is insecure.",
            "SPF record does not specify an \"all\" mechanism."},
   dkim |-> {"DKIM key strength is weak (<1024 bits)."},
   dmarc |-> {"DMARC policy is set to \"quarantine\" (partial enforcement).",
              "DMARC policy is set to \"none\" (monitoring only)."}]

\* the categories that lost points for a non-optimal condition: SPF syntax
\* errors, a DKIM key below 1024 bits, DMARC policy none or quarantine
LostPoints ==
  {c \in ScoreCategories :
     \/ /\ c = "spf"
        /\ detail(outcome.value.details, "spf_exists") = 10
        /\ detail(outcome.value.details, "spf_syntax") = 0
     \/ /\ c = "dkim"
        /\ detail(outcome.value.details, "dkim_exists") = 15
        /\ detail(outcome.value.details, "dkim_key_strength") = 0
     \/ /\ c = "dmarc"
        /\ detail(outcome.value.details, "dmarc_exists") = 10
        /\ detail(outcome.value.details, "dmarc_policy") \in {5, 15}}

\* C18: for every input each category has exactly one reason and one
\* recommendation, and a category that lost points for a non-optimal
\* condition has a reason naming such a condition and a recommendation that
\* is never 'No change needed'
C18_NonOptimalReasonWins ==
  ScoreReturned =>
    /\ DOMAIN outcome.value.reasons = ScoreCategories
    /\ DOMAIN outcome.value.recommendations = ScoreCategories
    /\ \A c \in LostPoints :
         /\ outcome.value.reasons[c] \in NonOptimalReasons[c]
         /\ outcome.value.recommendations[c] \notin NoChangeNeeded

(***************************************************************************)
(* Properties of the SPF result tree (specification Spec).                  *)
(***************************************************************************)
\* the nodes reached from a result through include children only
RECURSIVE IncludeSubtree(_)
IncludeSubtree(result) ==
  {result} \cup UNION { IncludeSubtree(result.includes[i].result) :
                          i \in 1..Len(result.includes) }

\* C19: for every node of an SPF result tree, a recorded include child with
\* isValid = false makes the node's isValid false; hence an invalid node
\* anywhere in the include subtree makes the root result invalid
C19_InvalidIncludePropagates ==
  SpfReturned =>
    /\ \A n \in Walk(outcome.value, <<>>) :
         (\E i \in 1..Len(n.node.includes) : ~n.node.includes[i].result.isValid)
           => ~n.node.isValid
    /\ (\E d \in IncludeSubtree(outcome.value) : ~d.isValid)
         => ~outcome.value.isValid

\* a root made invalid by an include of an include: the grandchild alone
\* has an error of its own
C19_Witness ==
  /\ TopLevel
  /\ ~outcome.value.isValid
  /\ Len(outcome.value.errors) = 1
  /\ \E i \in 1..Len(outcome.value.includes) :
       /\ Len(outcome.value.includes[i].result.errors) = 1
       /\ \E j \in 1..Len(outcome.value.includes[i].result.includes) :
            /\ ~outcome.value.includes[i].result.includes[j].result.isValid
            /\ outcome.value.includes[i].result.includes[j].result.includes = <<>>

\* the node followed its redirect exactly when its record has a redirect
\* target and each include of the record was evaluated and found valid
RedirectDecided(node, mechanisms) ==
  node.redirects # <<>>
    <=> /\ mechanisms.redirect # None
        /\ Len(node.includes) = Len(mechanisms.include)
        /\ \A i \in 1..Len(node.includes) : node.includes[i].result.isValid

\* C20: a node recurses into its redirect target if and only if the chosen
\* record has a redirect target and every include of that record evaluated
\* as valid; nothing else about the node (such as a 'multiple records'
\* error) decides whether the redirect is followed
C20_RedirectIffIncludesValid ==
  TopLevel =>
    \A n \in Walk(outcome.value, <<>>) :
      (n.node.record # None /\ parseSPFRecord(n.node.record[1]) # None)
        => RedirectDecided(n.node, parseSPFRecord(n.node.record[1])[1].mechanisms)

\* the message m of a parent is the message e of the child at domain, with
\* the relation and the domain before it: of the templates of validateSPF
\* only "Redirect (${redirectDomain}): ${w}" has a place for a child's message
Quotes(m, domain, e) ==
  /\ "warning" \in DOMAIN m
  /\ m.domain = domain
  /\ m.warning = e

\* every message of the child is in the parent's list with its provenance
Accumulated(parentList, child, childList) ==
  \A i \in 1..Len(childList) :
    \E j \in 1..Len(parentList) : Quotes(parentList[j], child.domain, childList[i])

\* C21: errors and warnings accumulate upward: every error or warning of an
\* include or redirect child is in its parent's errors or warnings with the
\* relation and the child's domain before it
C21_MessagesAccumulate ==
  SpfReturned =>
    \A n \in Walk(outcome.value, <<>>) :
      \A child \in Range(n.node.includes) \cup Range(n.node.redirects) :
        /\ Accumulated(n.node.errors, child, child.result.errors)
        /\ Accumulated(n.node.warnings, child, child.result.warnings)

\* the sum of dnsLookupCount over recorded children
RECURSIVE LookupsOf(_)
LookupsOf(children) ==
  IF children = <<>> THEN 0
  ELSE Head(children).result.dnsLookupCount + LookupsOf(Tail(children))

\* the call went on to its TXT query, the query was answered, and no record
\* of the answer starts with the SPF prefix
NoSpfPublished ==
  /\ SpfReturned
  /\ ~call.expired
  /\ earlyReturn(call.domain, call.depth, call.parentDomains,
                 call.includeCount) = None
  /\ ~resolveTxt(cleanDomain(call.domain)[1],
                 call.dns[cleanDomain(call.domain)[1]]).threw
  /\ \A part \in Range(flat(resolveTxt(cleanDomain(call.domain)[1],
                                       call.dns[cleanDomain(call.domain)[1]]).value)) :
       ~isSpfText(part)

\* C22: for every node, dnsLookupCount = (1 if an SPF record was chosen for
\* the node, else 0) + the sum of dnsLookupCount over its recorded include
\* and redirect children; a domain with no published SPF record yields an
\* invalid result with the error 'No SPF record found' and dnsLookupCount 0
C22_LookupCountAdds ==
  /\ SpfReturned =>
       \A n \in Walk(outcome.value, <<>>) :
         n.node.dnsLookupCount
           = (IF n.node.record # None THEN 1 ELSE 0)
               + LookupsOf(n.node.includes) + LookupsOf(n.node.redirects)
  /\ NoSpfPublished =>
       /\ ~outcome.value.isValid
       /\ outcome.value.errors = <<MsgNoRecord>>
       /\ outcome.value.dnsLookupCount = 0

\* a root that counts its own record, an include with an include of its own
\* and a redirect target
C22_Witness ==
  /\ TopLevel
  /\ outcome.value.dnsLookupCount = 4
  /\ Len(outcome.value.includes) = 1
  /\ outcome.value.includes[1].result.dnsLookupCount = 2
  /\ Len(outcome.value.includes[1].result.includes) = 1
  /\ Len(outcome.value.redirects) = 1
  /\ outcome.value.redirects[1].result.dnsLookupCount = 1

\* the terms of an SPF record: what follows the version, split at whitespace
TermsOf(record) ==
  SelectSeq(splitWhitespace(trim(substring(record, Len(SPF_PREFIX)))), isNotBlank)

LiteralAllTerms == {AllTerm(q) : q \in {"+", "-", "~", "?"}}

\* the term is the all mechanism as the parser's pattern reads it: an
\* optional qualifier, the name in any case, an optional value
IsAllTerm(term) ==
  LET body == IF term # <<>> /\ Head(term) \in QualifierChars THEN Tail(term)
                                                              ELSE term
  IN  \/ toLowerCase(body) = ALL_NAME
      \/ /\ Len(body) > 4
         /\ toLowerCase(SubSeq(body, 1, 3)) = ALL_NAME
         /\ body[4] \in {":", "="}

\* the nodes of the returned tree that chose a record and took no 'all' from
\* a redirect target
OwnAllNodes ==
  {n \in Walk(outcome.value, <<>>) :
     /\ n.node.record # None
     /\ parseSPFRecord(n.node.record[1]) # None
     /\ \A i \in 1..Len(n.node.redirects) : ~n.node.redirects[i].result.isValid}

\* the record has a term that ends in all, and none of +all, -all, ~all, ?all
AllNotLiteral(record) ==
  /\ \E t \in Range(TermsOf(record)) : endsWith(toLowerCase(t), ALL_NAME)
  /\ \A t \in Range(TermsOf(record)) : t \notin LiteralAllTerms

\* C23 as stated: when the record's all term is not literally one of +all,
\* -all, ~all, ?all (a bare all, say), the parsed record has no all qualifier
\* and, absent a valid redirect, the node's allMechanisms is empty
C23_UnqualifiedAllAbsent ==
  SpfReturned =>
    \A n \in OwnAllNodes :
      AllNotLiteral(n.node.record[1]) =>
        /\ parseSPFRecord(n.node.record[1])[1].mechanisms.all = None
        /\ n.node.allMechanisms = <<>>

\* C23 amended: a bare all is the all mechanism with the default qualifier:
\* it is parsed as +all and, absent a valid redirect, the node's
\* allMechanisms is <<+all>>; the qualifier is absent, and allMechanisms
\* empty, when no term of the record is the all mechanism (as for !all)
C23_BareAllDefaultsToPass ==
  SpfReturned =>
    \A n \in OwnAllNodes :
      /\ (/\ \E t \in Range(TermsOf(n.node.record[1])) : t = ALL_NAME
          /\ \A t \in Range(TermsOf(n.node.record[1])) :
               IsAllTerm(t) => t = ALL_NAME)
           => /\ parseSPFRecord(n.node.record[1])[1].mechanisms.all
                   = Some(AllTerm("+"))
              /\ n.node.allMechanisms = <<AllTerm("+")>>
      /\ (\A t \in Range(TermsOf(n.node.record[1])) : ~IsAllTerm(t))
           => /\ parseSPFRecord(n.node.record[1])[1].mechanisms.all = None
              /\ n.node.allMechanisms = <<>>

\* a root whose record ends in a bare all, after two includes that are valid
C23_Witness ==
  /\ TopLevel
  /\ outcome.value.isValid
  /\ outcome.value.record # None
  /\ TermsOf(outcome.value.record[1])[Len(TermsOf(outcome.value.record[1]))]
       = ALL_NAME
  /\ Len(outcome.value.includes) = 2
  /\ outcome.value.allMechanisms = <<AllTerm("+")>>

\* the call went on to its TXT query and the query was answered
TxtAnswered ==
  /\ SpfReturned
  /\ ~call.expired
  /\ earlyReturn(call.domain, call.depth, call.parentDomains,
                 call.includeCount) = None
  /\ ~resolveTxt(cleanDomain(call.domain)[1],
                 call.dns[cleanDomain(call.domain)[1]]).threw

\* the TXT records of the answer that start with the SPF version prefix
PublishedSpf ==
  SelectSeq(flat(resolveTxt(cleanDomain(call.domain)[1],
                            call.dns[cleanDomain(call.domain)[1]]).value),
            isSpfText)

\* the node lists the include targets of the record, in order
IncludesRecorded(node, mechanisms) ==
  /\ Len(node.includes) = Len(mechanisms.include)
  /\ \A i \in 1..Len(node.includes) :
       node.includes[i].domain = mechanisms.include[i]

\* C24: when more than one TXT record of a domain starts with the SPF version
\* prefix, the node is invalid with a 'multiple records' error, yet the first
\* matching record is evaluated: it is the node's record, it is parsed, its
\* include targets are resolved and its all qualifier is reported
C24_MultipleRecordsContinue ==
  (TxtAnswered /\ Len(PublishedSpf) > 1 /\ call.includeCount < MAX_INCLUDES) =>
    /\ ~outcome.value.isValid
    /\ \E i \in 1..Len(outcome.value.errors) : outcome.value.errors[i] = MsgMultiple
    /\ outcome.value.record = Some(PublishedSpf[1])
    /\ parseSPFRecord(PublishedSpf[1]) # None
    /\ IncludesRecorded(outcome.value,
                        parseSPFRecord(PublishedSpf[1])[1].mechanisms)
    /\ outcome.value.allMechanisms
         = ownAllMechanisms(parseSPFRecord(PublishedSpf[1])[1])

\* two SPF records, the first with an include that is resolved and valid
C24_Witness ==
  /\ TxtAnswered
  /\ Len(PublishedSpf) = 2
  /\ outcome.value.errors = <<MsgMultiple>>
  /\ Len(outcome.value.includes) = 1
  /\ outcome.value.includes[1].result.isValid
  /\ outcome.value.allMechanisms = <<AllTerm("~")>>
  /\ Len(queried) = 2

(***************************************************************************)
(* Properties of validateSPF on the event loop (specification SpecAsync).   *)
(***************************************************************************)
\* the frames whose DNS query is in flight: dispatched, its body not yet read
InFlight ==
  {f \in 1..Len(tasks.frames) :
     tasks.frames[f].request \in {"inflight", "responded"}}

\* the include children of every node of a result are those of the record's
\* include targets that were resolved, in record order
InRecordOrder(result) ==
  \A n \in Walk(result, <<>>) :
    (n.node.record # None /\ parseSPFRecord(n.node.record[1]) # None) =>
      /\ Len(n.node.includes)
           <= Len(parseSPFRecord(n.node.record[1])[1].mechanisms.include)
      /\ \A i \in 1..Len(n.node.includes) :
           n.node.includes[i].domain
             = parseSPFRecord(n.node.record[1])[1].mechanisms.include[i]

\* C25: within one SPF evaluation at most one DNS query is in flight at any
\* time: include targets are resolved one at a time in record order, the
\* redirect after all includes, and result.includes lists the children in
\* record order
C25_OneQueryInFlight ==
  /\ Cardinality(InFlight) <= 1
  /\ (pc = "returned" /\ call.fn = "validateSPF") => InRecordOrder(outcome.value)

\* no deadline of withTimeout has fired before its async function ended
NoDeadlineFired ==
  \A f \in 1..Len(tasks.frames) :
    tasks.frames[f].promise = "settled" => tasks.frames[f].phase = "finished"


\* the visited set the node at the end of a chain was handed: the caller's
\* set and then the domains of the chain down to the node's parent
RECURSIVE Handed(_, _)
Handed(parentDomains, chain) ==
  IF Len(chain) <= 1 THEN parentDomains
  ELSE Handed(setAdd(parentDomains,
                     IF cleanDomain(Head(chain)) = None THEN Head(chain)
                     ELSE cleanDomain(Head(chain))[1]),
              Tail(chain))

\* the node's own domain, cleaned
ReachedDomain(chain) ==
  IF cleanDomain(chain[Len(chain)]) = None THEN chain[Len(chain)]
  ELSE cleanDomain(chain[Len(chain)])[1]

\* a domain is the target of two calls that are not on one path
ReachedTwice(nodes) ==
  \E p, q \in nodes :
    /\ p.chain # q.chain
    /\ p.chain[Len(p.chain)] = q.chain[Len(q.chain)]
    /\ Len(p.chain) > 1
    /\ p.node.record # None /\ q.node.record # None

\* C26: in every evaluation, whatever visited set the caller passed, a node
\* reports a circular reference only when its domain is in the caller's set
\* or on the path from the root to its parent, and the set it reports is
\* exactly the caller's set followed by that path: no sibling branch is in
\* it, so a domain reached through two branches is evaluated in both.
C26_PrivateVisitedSet ==
  SpfEvaluated /\ cleanDomain(call.domain) # None =>
    \A p \in Walk(outcome.value, <<cleanDomain(call.domain)[1]>>) :
      \A k \in 1..Len(p.node.errors) :
        "chain" \in DOMAIN p.node.errors[k] =>
          /\ setHas(Handed(call.parentDomains, p.chain), ReachedDomain(p.chain))
          /\ p.node.errors[k] =
               MsgCircular(Handed(call.parentDomains, p.chain),
                           ReachedDomain(p.chain))

\* example.com includes spf.a.net and mail.example.org, spf.a.net includes
\* mail.example.org too: mail.example.org is queried and evaluated in both
\* branches
C26_Witness ==
  /\ TopLevel
  /\ ReachedTwice(Walk(outcome.value, <<EXAMPLE_COM>>))
  /\ Len(outcome.value.includes) = 2
  /\ outcome.value.includes[1].result.includes # <<>>
  /\ QueriedTwice(queried)


\* C27: a resolver call is never pending more than QUERY_TIMEOUT_MS after it
\* dispatched its request, whether it waits for the response or reads the
\* body of the response.
C27_QueryBounded ==
  pc \in {"fetching", "reading"} => net.clock - net.startTime <= QUERY_TIMEOUT_MS


\* C28: in every node of every result tree, a lookup count above
\* MAX_DNS_LOOKUPS makes the node invalid with the error that says so; a
\* valid node counts MAX_DNS_LOOKUPS lookups at most.
C28_LookupLimitEnforced ==
  SpfReturned =>
    \A n \in Walk(outcome.value, <<>>) :
      n.node.dnsLookupCount > MAX_DNS_LOOKUPS =>
        /\ ~n.node.isValid
        /\ MsgTooManyLookups \in Range(n.node.errors)


\* C29: in every node of every result tree validateSPF returns, whatever the
\* arguments of the call and whether or not it timed out, isValid is true
\* exactly when the list of errors is empty.
C29_ValidIffNoErrors ==
  SpfReturned =>
    \A n \in Walk(outcome.value, <<>>) :
      n.node.isValid <=> n.node.errors = <<>>

\* a root that is invalid with an error, over an include that is valid with
\* a record and no error and an include that is invalid with an error
C29_Witness ==
  /\ SpfReturned
  /\ Len(outcome.value.errors) >= 1
  /\ ~outcome.value.isValid
  /\ \E n \in Walk(outcome.value, <<>>) :
       /\ n.chain # <<>>
       /\ n.node.isValid
       /\ n.node.record # None
       /\ n.node.errors = <<>>
  /\ \E n \in Walk(outcome.value, <<>>) :
       /\ n.chain # <<>>
       /\ ~n.node.isValid
       /\ n.node.errors # <<>>


\* C30: on an event loop that keeps running, every top-level call of
\* validateSPF returns, whatever the zone publishes and whether or not the
\* transport ever answers.
C30_CallReturns == (pc = "running") ~> (pc = "returned")

\* a call returned by its deadline: the response of a query came and its
\* body never did
C30_Witness ==
  /\ pc = "returned"
  /\ call.fn = "validateSPF"
  /\ tasks.clock >= SPF_TIMEOUT_MS
  /\ outcome.value.errors = <<MsgSpfTimeout(EXAMPLE_COM)>>
  /\ \E f \in 1..Len(tasks.frames) : tasks.frames[f].request = "responded"

=============================================================================
